---- MODULE Spec2Model ----
(***************************************************************************)
(* A model of the Pickle interpreter core (pickle.c): the lexer, the       *)
(* evaluator picolEval with its argv life cycle, the result channel, the   *)
(* variable environment with call frames and links, and the control-flow   *)
(* built-ins.  Source text, words and results are sequences of one-byte    *)
(* strings.  The native call stack of the recursive evaluator is the       *)
(* variable `stack`; a C function that calls picolEval is split at the     *)
(* call into the step that makes the call and the step that receives the   *)
(* returned code.                                                          *)
(***************************************************************************)
EXTENDS Integers, Sequences, FiniteSets, TLC

(***************************************************************************)
(* Bounds of the model.                                                    *)
(***************************************************************************)
\* pickle_eval calls made by the host in one behaviour
MaxEvals == 1
\* commands dispatched in one behaviour (bounds non-terminating scripts)
MaxDispatch == 12
\* result-setting API calls made by the host in one behaviour
MaxResultOps == 4
\* command-table API calls made by the host in one behaviour
MaxTableOps == 3
\* calls of the variable API made by the host
MaxVarOps == 2
\* bytes and escapes in a text given to picolUnEscape
MaxItems == 2
\* longest run of items behind the opening brace of a brace group
MaxBraceItems == 3
\* longest list given to llength and lindex
MaxListLen == 3
\* most words in a list given to join
MaxJoinWords == 2
\* most allocations that fail in one run
MaxFails == 1
\* most words handed to concatenate
MaxConcatWords == 3
\* longest run of items behind the command name of a command line
MaxWordItems == 3
\* longest text given to the lexer
MaxLexLen == 3
\* the bytes behind the opening bracket of the bracket texts
MaxBracketLen == 4

\* the largest base and the largest exponent given to pow; the smallest are
\* -MaxPowBase and -2
MaxPowBase == 5
MaxPowExp == 8

\* the largest index given to string range; the smallest is -2
MaxRangeIndex == 5

\* longest run of inline whitespace put in front of a newline
MaxWs == 2
\* no text given to picolEval is longer than this: texts lie MaxText bytes apart
MaxText == 256

(***************************************************************************)
(* Program constants.                                                      *)
(***************************************************************************)
\* The return codes and the limits are set in pickle.h.  The codes are those the
\* build asserts (OK, ERROR) and the shell script decodes (RETURN, BREAK, CONTINUE);
\* the limits are the least values the build accepts.
PICKLE_ERROR == -1
PICKLE_OK == 0
PICKLE_RETURN == 1
PICKLE_BREAK == 2
PICKLE_CONTINUE == 3
PICKLE_MAX_RECURSION == 8
PICKLE_MAX_ARGS == 8
SMALL_RESULT_BUF_SZ == 96
VERSION == 1989
\* sizeof(char*), the size of the inline buffer of a small string
SizeofCharPtr == 8

\* the byte that terminates a C string
NUL == "NUL"

LowerChars == {"a","b","c","d","e","f","g","h","i","j","k","l","m","n","o","p","q","r","s","t","u","v","w","x","y","z"}
UpperChars == {"A","B","C","D","E","F","G","H","I","J","K","L","M","N","O","P","Q","R","S","T","U","V","W","X","Y","Z"}
DigitChars == {"0","1","2","3","4","5","6","7","8","9"}

string_empty == << >>
string_oom == <<"O", "u", "t", " ", "O", "f", " ", "M", "e", "m", "o", "r", "y">>
string_digits == <<"0", "1", "2", "3", "4", "5", "6", "7", "8", "9", "a", "b", "c", "d", "e", "f", "g", "h", "i", "j", "k", "l", "m", "n", "o", "p", "q", "r", "s", "t", "u", "v", "w", "x", "y", "z">>

(***************************************************************************)
(* Lexer.  A parser is the record pickle_parser_t: text, p (index of the   *)
(* current byte, 1-based), len (bytes remaining), start and end (token     *)
(* slice), type (PT_...) and insidequote.  base is the address of the byte *)
(* in front of the text, so that byte k lies at base + k; line and ch are  *)
(* the values *p->line and *p->ch, that is i->line and i->ch, while a      *)
(* function of the lexer runs.                                             *)
(***************************************************************************)
Cur(q) == IF q.p >= 1 /\ q.p <= Len(q.text) THEN q.text[q.p] ELSE NUL

Ret(rc, q) == [rc |-> rc, p |-> q]

\* advance counts the current byte when the counter is enabled and *p->ch < p->p
Counted(q) == q.line # 0 /\ q.ch < q.base + q.p

\* the parser after the line count and p->p++, p->len-- of advance
Advanced(q) ==
  [q EXCEPT !.ch = IF Counted(q) THEN q.base + q.p ELSE @,
            !.line = IF Counted(q) /\ Cur(q) = "\n" THEN @ + 1 ELSE @,
            !.p = @ + 1,
            !.len = @ - 1]

advance(q) ==
  IF q.len <= 0 THEN Ret(PICKLE_ERROR, q)
  ELSE IF q.len # 0 /\ Cur(q) = NUL THEN Ret(PICKLE_ERROR, q)
  ELSE IF Advanced(q).len # 0 /\ Cur(Advanced(q)) = NUL THEN Ret(PICKLE_ERROR, Advanced(q))
  ELSE Ret(PICKLE_OK, Advanced(q))

\* line and ch are pointers into the interpreter; the values they point to are read
\* when the lexer is called
picolParserInitialize(text, base) ==
  [text |-> text, p |-> 1, len |-> Len(text), start |-> 1, end |-> 0,
   type |-> "PT_EOL", insidequote |-> FALSE, base |-> base, line |-> 0, ch |-> 0]

picolIsSpaceChar(ch) == ch = " " \/ ch = "\t" \/ ch = "\n" \/ ch = "\r"

RECURSIVE SepLoop(_)
SepLoop(q) ==
  IF picolIsSpaceChar(Cur(q))
  THEN LET a == advance(q) IN IF a.rc # PICKLE_OK THEN a ELSE SepLoop(a.p)
  ELSE Ret(PICKLE_OK, q)

picolParseSep(q) ==
  LET r == SepLoop([q EXCEPT !.start = q.p])
  IN IF r.rc # PICKLE_OK THEN r
     ELSE Ret(PICKLE_OK, [r.p EXCEPT !.end = r.p.p - 1, !.type = "PT_SEP"])

RECURSIVE EolLoop(_)
EolLoop(q) ==
  IF picolIsSpaceChar(Cur(q)) \/ Cur(q) = ";"
  THEN LET a == advance(q) IN IF a.rc # PICKLE_OK THEN a ELSE EolLoop(a.p)
  ELSE Ret(PICKLE_OK, q)

picolParseEol(q) ==
  LET r == EolLoop([q EXCEPT !.start = q.p])
  IN IF r.rc # PICKLE_OK THEN r
     ELSE Ret(PICKLE_OK, [r.p EXCEPT !.end = r.p.p - 1, !.type = "PT_EOL"])

RECURSIVE CommandLoop(_, _, _)
\* a level that counts the brackets inside braces too
CommandLevelInBraces(c, level, blevel) ==
  IF c = "[" THEN level + 1 ELSE IF c = "]" THEN level - 1 ELSE level

\* level after the byte c was looked at: brackets count outside braces only
CommandLevel(c, level, blevel) ==
  IF blevel # 0 THEN level
  ELSE IF c = "[" THEN level + 1 ELSE IF c = "]" THEN level - 1 ELSE level

\* blevel after the byte c was looked at
CommandBraces(c, blevel) ==
  IF c = "{" THEN blevel + 1 ELSE IF c = "}" /\ blevel # 0 THEN blevel - 1 ELSE blevel

\* the advances of one round of the scan loop of picolParseCommand that does not
\* break: a backslash takes the byte behind it along
CommandNext(q) ==
  IF Cur(q) # "\\" THEN advance(q)
  ELSE IF advance(q).rc # PICKLE_OK THEN advance(q) ELSE advance(advance(q).p)

\* the scan loop, entered with the outcome a of the advance of the round before;
\* it breaks at the end of the text and at the bracket that takes level to 0
CommandLoop(a, level, blevel) ==
  IF a.rc # PICKLE_OK \/ a.p.len = 0 \/ (<<level, blevel>> = <<1, 0>> /\ Cur(a.p) = "]") THEN a
  ELSE CommandLoop(CommandNext(a.p), CommandLevel(Cur(a.p), level, blevel),
                   CommandBraces(Cur(a.p), blevel))

picolParseCommand(q) ==
  LET a == advance(q)
  IN IF a.rc # PICKLE_OK THEN a
     ELSE LET r == CommandLoop(Ret(PICKLE_OK, [a.p EXCEPT !.start = a.p.p]), 1, 0)
          IN IF r.rc # PICKLE_OK THEN r
             ELSE LET e == [r.p EXCEPT !.end = r.p.p - 1, !.type = "PT_CMD"]
                  IN IF Cur(e) = "]" THEN advance(e) ELSE Ret(PICKLE_OK, e)

picolIsVarChar(ch) == ch \in LowerChars \/ ch \in UpperChars \/ ch \in DigitChars \/ ch = "_"

RECURSIVE VarLoop(_)
VarLoop(q) ==
  IF picolIsVarChar(Cur(q))
  THEN LET a == advance(q) IN IF a.rc # PICKLE_OK THEN a ELSE VarLoop(a.p)
  ELSE Ret(PICKLE_OK, q)

\* a picolParseVar that leaves a lone dollar sign in the text
picolParseVarPeeks(q) ==
  IF picolIsVarChar(Cur(advance(q).p)) \/ advance(q).rc # PICKLE_OK THEN advance(q)
  ELSE Ret(PICKLE_OK, [q EXCEPT !.start = q.p, !.end = q.p, !.type = "PT_STR"])

picolParseVar(q) ==
  LET a == advance(q)
  IN IF a.rc # PICKLE_OK THEN a
     ELSE LET s == a.p.p
              r == VarLoop([a.p EXCEPT !.start = s])
          IN IF r.rc # PICKLE_OK THEN r
             ELSE IF s = r.p.p
                  THEN Ret(PICKLE_OK, [r.p EXCEPT !.start = r.p.p - 1, !.end = r.p.p - 1, !.type = "PT_STR"])
                  ELSE Ret(PICKLE_OK, [r.p EXCEPT !.end = r.p.p - 1, !.type = "PT_VAR"])

\* one round of the scan loop of picolParseBrace that does not return: a backslash
\* takes the byte behind it
BraceStepCountsEscaped(q) == advance(q)

BraceStep(q) ==
  IF q.len < 2 \/ Cur(q) # "\\" THEN advance(q)
  ELSE IF advance(q).rc # PICKLE_OK THEN advance(q)
  ELSE advance(advance(q).p)

\* level after a round at the byte c, which no backslash has taken
BraceLevel(c, level) == IF c = "}" THEN level - 1 ELSE IF c = "{" THEN level + 1 ELSE level

\* what the scan loop returns at q: the token ends in front of q, and a closing brace
\* is skipped
BraceEnd(q) ==
  IF q.len # 0 THEN advance([q EXCEPT !.end = q.p - 1, !.type = "PT_STR"])
  ELSE Ret(PICKLE_OK, [q EXCEPT !.end = q.p - 1, !.type = "PT_STR"])

RECURSIVE BraceLoop(_, _)
BraceLoop(a, level) ==
  IF a.rc # PICKLE_OK THEN a
  ELSE IF a.p.len = 0 \/ <<Cur(a.p), level>> = <<"}", 1>> THEN BraceEnd(a.p)
  ELSE BraceLoop(BraceStep(a.p), BraceLevel(Cur(a.p), level))

picolParseBrace(q) ==
  LET a == advance(q)
  IN IF a.rc # PICKLE_OK THEN a
     ELSE BraceLoop(Ret(PICKLE_OK, [a.p EXCEPT !.start = a.p.p]), 1)

\* the scan loop of picolParseString returns at q
StringStop(q) ==
  \/ q.len = 0
  \/ Cur(q) = "$" \/ Cur(q) = "["
  \/ Cur(q) \in {"\n", " ", "\t", "\r", ";"} /\ ~q.insidequote
  \/ Cur(q) = "\"" /\ q.insidequote

\* what the scan loop returns at q: the token ends in front of q
StringEnd(q) ==
  IF q.len # 0 /\ Cur(q) = "\""
  THEN advance([q EXCEPT !.end = q.p - 1, !.type = "PT_ESC", !.insidequote = FALSE])
  ELSE Ret(PICKLE_OK, [q EXCEPT !.end = q.p - 1, !.type = "PT_ESC"])

\* one round of the scan loop that does not return: a backslash takes the byte behind it
StringStep(q) ==
  IF Cur(q) # "\\" \/ q.len < 2 THEN advance(q)
  ELSE IF advance(q).rc # PICKLE_OK THEN advance(q)
  ELSE advance(advance(q).p)

\* one round of the scan loop; over: the loop has returned
StringRound(s) ==
  IF StringStop(s.a.p) THEN [a |-> StringEnd(s.a.p), over |-> TRUE]
  ELSE [a |-> StringStep(s.a.p), over |-> StringStep(s.a.p).rc # PICKLE_OK]

\* up to n rounds of the scan loop, run as two halves
RECURSIVE StringRounds(_, _)
StringHalf(s, n) == IF s.over THEN s ELSE StringRounds(s, n)

StringRounds(s, n) ==
  IF n <= 1 THEN StringRound(s)
  ELSE StringHalf(StringRounds(s, n \div 2), n - (n \div 2))

\* the scan loop: every round that does not return takes a byte, so that it returns
\* within q.len + 1 rounds
StringLoop(a) ==
  IF a.rc # PICKLE_OK THEN a
  ELSE StringRounds([a |-> a, over |-> FALSE], a.p.len + 1).a

picolParseString(q) ==
  LET newword == q.type \in {"PT_SEP", "PT_EOL", "PT_STR"}
  IN IF newword /\ Cur(q) = "{" THEN picolParseBrace(q)
     ELSE IF newword /\ Cur(q) = "\""
          THEN LET a == advance([q EXCEPT !.insidequote = TRUE])
               IN IF a.rc # PICKLE_OK THEN a
                  ELSE StringLoop(Ret(PICKLE_OK, [a.p EXCEPT !.start = a.p.p]))
          ELSE StringLoop(Ret(PICKLE_OK, [q EXCEPT !.start = q.p]))

RECURSIVE picolParseComment(_)
picolParseComment(q) ==
  IF q.len # 0 /\ Cur(q) # "\n"
  THEN LET a == advance(q) IN IF a.rc # PICKLE_OK THEN a ELSE picolParseComment(a.p)
  ELSE Ret(PICKLE_OK, q)

RECURSIVE picolGetToken(_)
picolGetToken(q) ==
  IF q.len = 0
  THEN Ret(PICKLE_OK, [q EXCEPT !.type = IF q.type # "PT_EOL" /\ q.type # "PT_EOF"
                                         THEN "PT_EOL" ELSE "PT_EOF"])
  ELSE IF Cur(q) = " " \/ Cur(q) = "\t"
       THEN IF q.insidequote THEN picolParseString(q) ELSE picolParseSep(q)
  ELSE IF Cur(q) = "\r" \/ Cur(q) = "\n" \/ Cur(q) = ";"
       THEN IF q.insidequote THEN picolParseString(q) ELSE picolParseEol(q)
  ELSE IF Cur(q) = "[" THEN picolParseCommand(q)
  ELSE IF Cur(q) = "$" THEN picolParseVar(q)
  ELSE IF Cur(q) = "#"
       THEN IF q.type = "PT_EOL"
            THEN LET c == picolParseComment(q)
                 IN IF c.rc # PICKLE_OK THEN c ELSE picolGetToken(c.p)
            ELSE picolParseString(q)
  ELSE picolParseString(q)

\* the bytes of the token slice [start, end], as picolEval copies them
TokenText(q) == SubSeq(q.text, q.start, q.end)

(***************************************************************************)
(* String utilities.                                                       *)
(***************************************************************************)
\* a C string ends at its first NUL byte
CStr(s) == IF \E k \in 1..Len(s) : s[k] = NUL
           THEN SubSeq(s, 1, (CHOOSE k \in 1..Len(s) : s[k] = NUL /\ \A m \in 1..(k - 1) : s[m] # NUL) - 1)
           ELSE s

\* s[j] of a C string, j counted from 0
At(s, j) == IF j >= 0 /\ j < Len(s) THEN s[j + 1] ELSE NUL

picolStrlen(s) == Len(s)

string_upper == <<"A", "B", "C", "D", "E", "F", "G", "H", "I", "J", "K", "L", "M", "N", "O", "P", "Q", "R", "S", "T", "U", "V", "W", "X", "Y", "Z">>

\* tolower of the C library, on the bytes the model uses
ToLower(ch) == IF ch \in UpperChars
               THEN string_digits[10 + (CHOOSE k \in 1..26 : string_upper[k] = ch)]
               ELSE ch

picolDigit(digit) ==
  IF \E k \in 1..Len(string_digits) : string_digits[k] = ToLower(digit)
  THEN (CHOOSE k \in 1..Len(string_digits) : string_digits[k] = ToLower(digit)) - 1
  ELSE -1

picolIsDigit(digit, base) == LET r == picolDigit(digit) IN IF r < base THEN r ELSE -1

\* the body of the digit loop of picolConvertBaseNLong on the byte c: the byte read
\* last, whether the loop broke on it, and the value read so far
ConvertStep(l, c, base) ==
  [ch |-> c, brk |-> picolIsDigit(c, base) < 0,
   result |-> IF picolIsDigit(c, base) < 0 THEN l.result
              ELSE picolIsDigit(c, base) + (l.result * base)]

\* the digit loop: it ends on a break, at j = max and at the end of the string
RECURSIVE ConvertLoop(_, _, _, _)
ConvertLoop(s, j, l, base) ==
  IF l.brk \/ j >= 64 THEN l
  ELSE IF At(s, j) = NUL THEN [l EXCEPT !.ch = NUL]
  ELSE ConvertLoop(s, j + 1, ConvertStep(l, At(s, j), base), base)

\* picolConvertBaseNLong without its effect on the result: ok and the value stored in *out
ConvertBaseN(s, base) ==
  LET ch == At(s, 0)
      negate == ch = "-"
      prefix == IF negate \/ ch = "+" THEN 1 ELSE 0
  IN IF prefix = 1 /\ At(s, prefix) = NUL THEN [ok |-> FALSE, out |-> 0]
     ELSE IF ch = NUL THEN [ok |-> FALSE, out |-> 0]
     ELSE LET l == ConvertLoop(s, prefix, [ch |-> ch, brk |-> FALSE, result |-> 0], base)
          IN IF l.ch # NUL THEN [ok |-> FALSE, out |-> 0]
             ELSE [ok |-> TRUE, out |-> IF negate THEN -l.result ELSE l.result]

RECURSIVE DigitsOf(_, _)
\* the do-while loop of picolLongToString: least significant digit first
DigitsOf(in, base) ==
  <<string_digits[(in % base) + 1]>> \o (IF in \div base # 0 THEN DigitsOf(in \div base, base) ELSE << >>)

reverse(s) == [k \in 1..Len(s) |-> s[Len(s) + 1 - k]]

picolLongToString(in, base) ==
  LET negate == in < 0
      mag == IF negate THEN -in ELSE in
  IN reverse(DigitsOf(mag, base) \o (IF negate THEN <<"-">> ELSE << >>))

HexChars == DigitChars \cup {"a","b","c","d","e","f","A","B","C","D","E","F"}

hexCharToNibble(c) == picolDigit(c)

\* hexStr2ToInt that converts no more than one character
hexStr1ToInt(s, j) ==
  IF At(s, j) \notin HexChars THEN [pos |-> 0, val |-> 0]
  ELSE [pos |-> 1, val |-> hexCharToNibble(At(s, j))]

\* hexStr2ToInt on the bytes of s from offset j: number of bytes converted and the value
hexStr2ToInt(s, j) ==
  IF At(s, j) \notin HexChars THEN [pos |-> 0, val |-> 0]
  ELSE IF At(s, j + 1) \notin HexChars THEN [pos |-> 1, val |-> hexCharToNibble(At(s, j))]
  ELSE [pos |-> 2, val |-> (hexCharToNibble(At(s, j)) * 16) + hexCharToNibble(At(s, j + 1))]

AsciiPrintable == <<" ", "!", "\"", "#", "$", "%", "&", "'", "(", ")", "*", "+", ",", "-", ".", "/", "0", "1", "2", "3", "4", "5", "6", "7", "8", "9", ":", ";", "<", "=", ">", "?", "@", "A", "B", "C", "D", "E", "F", "G", "H", "I", "J", "K", "L", "M", "N", "O", "P", "Q", "R", "S", "T", "U", "V", "W", "X", "Y", "Z", "[", "\\", "]", "^", "_">> \o <<"byte96">> \o <<"a", "b", "c", "d", "e", "f", "g", "h", "i", "j", "k", "l", "m", "n", "o", "p", "q", "r", "s", "t", "u", "v", "w", "x", "y", "z", "{", "|", "}", "~">>

\* the byte with the given value
Chr(v) == IF v >= 32 /\ v <= 126 THEN AsciiPrintable[v - 31]
          ELSE IF v = 0 THEN NUL
          ELSE IF v = 9 THEN "\t"
          ELSE IF v = 10 THEN "\n"
          ELSE IF v = 13 THEN "\r"
          ELSE "byte" \o ToString(v)

\* the decoding loop of picolUnEscape: j reads, out is r[0..k-1]
\* the buffer r when picolUnEscape gives up: the bytes written over its front
Mangled(r, out) == CStr(out \o SubSeq(r, Len(out) + 1, Len(r)))

RECURSIVE UnEscapeLoop(_, _, _, _)
UnEscapeLoop(r, j, out, length) ==
  IF At(r, j) # NUL /\ Len(out) < length
  THEN IF At(r, j) = "\\"
       THEN LET e == At(r, j + 1)
            IN IF e = "\\" THEN UnEscapeLoop(r, j + 2, Append(out, "\\"), length)
               ELSE IF e = "n" THEN UnEscapeLoop(r, j + 2, Append(out, "\n"), length)
               ELSE IF e = "t" THEN UnEscapeLoop(r, j + 2, Append(out, "\t"), length)
               ELSE IF e = "r" THEN UnEscapeLoop(r, j + 2, Append(out, "\r"), length)
               ELSE IF e = "\"" THEN UnEscapeLoop(r, j + 2, Append(out, "\""), length)
               ELSE IF e = "[" THEN UnEscapeLoop(r, j + 2, Append(out, "["), length)
               ELSE IF e = "]" THEN UnEscapeLoop(r, j + 2, Append(out, "]"), length)
               ELSE IF e = "e" THEN UnEscapeLoop(r, j + 2, Append(out, Chr(27)), length)
               ELSE IF e = "x"
                    THEN LET h == hexStr2ToInt(r, j + 2)
                         IN IF h.pos < 1 THEN [rc |-> -2, s |-> Mangled(r, out)]
                            ELSE UnEscapeLoop(r, j + 2 + h.pos, Append(out, Chr(h.val)), length)
               ELSE [rc |-> -3, s |-> Mangled(r, out)]
       ELSE UnEscapeLoop(r, j + 1, Append(out, At(r, j)), length)
  ELSE [rc |-> Len(out), s |-> CStr(out)]

picolUnEscape(r, length) ==
  IF length = 0 THEN [rc |-> -1, s |-> r] ELSE UnEscapeLoop(r, 0, << >>, length)

picolIsSmallString(val) == Len(val) < SizeofCharPtr

\* the words joined with the join string between consecutive words
RECURSIVE JoinWords(_, _)
JoinWords(join, argv) ==
  IF Len(argv) = 0 THEN << >>
  ELSE IF Len(argv) = 1 THEN argv[1]
  ELSE argv[1] \o join \o JoinWords(join, Tail(argv))

\* concatenate: NoString stands for the NULL it returns
NoString == "NULL"
concatenate(join, argv, ok) ==
  IF Len(argv) = 0 THEN (IF ok THEN << >> ELSE NoString)
  ELSE IF Len(argv) > PICKLE_MAX_ARGS THEN NoString
  ELSE IF ~ok THEN NoString
  ELSE JoinWords(join, argv)

\* the l that concatenate asks picolStackOrHeapAlloc for: each word and one join string
\* per word
RECURSIVE ConcatNeeded(_, _)
ConcatNeeded(join, argv) ==
  IF Len(argv) = 0 THEN 0 ELSE Len(argv[1]) + Len(join) + ConcatNeeded(join, Tail(argv))

\* the length of the buffer h.p points to after picolStackOrHeapAlloc(i, &h, needed)
BufferLength(needed) == IF needed <= SMALL_RESULT_BUF_SZ THEN SMALL_RESULT_BUF_SZ ELSE needed

\* h.p[l] = 0 of concatenate writes behind the end of the buffer
ConcatOverflows(join, argv) ==
  /\ Len(argv) \in 1..PICKLE_MAX_ARGS
  /\ Len(JoinWords(join, argv)) >= BufferLength(ConcatNeeded(join, argv))

concatenateTest(result, join, argv) ==
  IF concatenate(join, argv, TRUE) = result THEN PICKLE_OK ELSE PICKLE_ERROR

picolTestConcat ==
  concatenateTest(<<"a", "c">>, << >>, <<<<"a">>, <<"c">>>>)
    + concatenateTest(<<"a", ",", "c">>, <<",">>, <<<<"a">>, <<"c">>>>)
    + concatenateTest(<<"a", ",", "b", ",", "c">>, <<",">>, <<<<"a">>, <<"b">>, <<"c">>>>)
    + concatenateTest(<<"a">>, <<"X">>, <<<<"a">>>>)
    + concatenateTest(<< >>, << >>, << >>)

(***************************************************************************)
(* The interpreter.  `i` is struct pickle_interpreter together with the    *)
(* heap objects it owns:                                                   *)
(*   result         where i->result points: "string_empty", "string_oom",  *)
(*                  "result_buf", or the index of a heap block in blocks   *)
(*   static_result  the flag that keeps picolFreeResult from freeing       *)
(*   result_buf     the inline buffer                                      *)
(*   blocks         every heap block ever allocated for a result: its      *)
(*                  bytes and how often it has been passed to free         *)
(*   callframe      index in frames of the current call frame              *)
(*   level          nesting level of procedure calls                       *)
(*   frames         every call frame ever allocated: vars (cell indexes,   *)
(*                  head of the list first), parent (0 is NULL) and live   *)
(*   cells          every struct pickle_var ever allocated                 *)
(*   table          the command table: the records struct pickle_command,  *)
(*                  newest first.  The hash of a name only selects the     *)
(*                  chain a record is kept in, so the chains are written   *)
(*                  as one list that keeps the order of insertion          *)
(*   argvLive       number of live heap blocks that are argv arrays or     *)
(*                  argv words                                             *)
(*   line, ch       the line counter and the address of the last byte      *)
(*                  counted; 0 is the line that disables counting and the  *)
(*                  NULL of ch                                             *)
(*   ntexts         number of heap texts given to picolEval so far         *)
(*   heaporder      where the heap puts those texts, see TextBase          *)
(*   failed         number of allocations that have returned NULL          *)
(*   tokLost        number of heap blocks holding a token t of picolEval   *)
(*                  that were not freed when picolEval returned            *)
(***************************************************************************)
VARIABLES i, stack, returning, rv, log, nevals, nops

vars == <<i, stack, returning, rv, log, nevals, nops>>

RC(rc, ii) == [rc |-> rc, i |-> ii]

\* The addresses of the texts picolEval is given are the host's and the allocator's
\* choice.  The text of the host is number 0 and lies at address 0; the k-th heap
\* text that is evaluated (a token copy, a word of argv, a procedure body, a joined
\* script) lies k texts above it or k texts below it, one order for the whole run.
TextBase(order, k) == order * k * MaxText

\* the orders the heap can still have when the text number k is evaluated
HeapOrders(ii, k) == IF k = 0 \/ ii.heaporder # 0 THEN {ii.heaporder} ELSE {1, -1}

\* a heap text is allocated: it gets the next number
AllocText(ii) == [ii EXCEPT !.ntexts = @ + 1]


\* the bytes i->result points to
ResultString(ii) ==
  IF ~ii.static_result THEN ii.blocks[ii.result].s
  ELSE IF ii.result = "string_empty" THEN string_empty
  ELSE IF ii.result = "string_oom" THEN string_oom
  ELSE ii.result_buf

picolFreeResult(ii) ==
  IF ~ii.static_result THEN [ii EXCEPT !.blocks[ii.result].frees = @ + 1] ELSE ii

picolSetResultErrorOutOfMemory(ii) ==
  RC(PICKLE_ERROR, [picolFreeResult(ii) EXCEPT !.result = "string_oom", !.static_result = TRUE])

picolSetResultEmpty(ii) ==
  RC(PICKLE_OK, [picolFreeResult(ii) EXCEPT !.result = "string_empty", !.static_result = TRUE])

\* ok: whether picolMalloc succeeds
pickle_set_result_string(ii, s, ok) ==
  IF picolStrlen(s) + 1 <= SMALL_RESULT_BUF_SZ
  THEN RC(PICKLE_OK, [ii EXCEPT !.result_buf = s, !.static_result = TRUE, !.result = "result_buf"])
  ELSE IF ok
       THEN LET a == [ii EXCEPT !.blocks = Append(@, [s |-> s, frees |-> 0])]
            IN RC(PICKLE_OK, [picolFreeResult(a) EXCEPT !.static_result = FALSE, !.result = Len(a.blocks)])
       ELSE picolSetResultErrorOutOfMemory(ii)

\* the prefix pickle_set_result_error writes when i->line is not 0
LinePrefix(ii) ==
  IF ii.line # 0 THEN <<"l", "i", "n", "e", " ">> \o picolLongToString(ii.line, 10) \o <<":", " ">> ELSE << >>

pickle_set_result_error(ii, msg) ==
  RC(PICKLE_ERROR, pickle_set_result_string(ii, LinePrefix(ii) \o msg, TRUE).i)

picolConvertLong(ii, s) ==
  LET c == ConvertBaseN(s, 10)
  IN IF c.ok THEN [rc |-> PICKLE_OK, i |-> ii, out |-> c.out]
     ELSE [rc |-> PICKLE_ERROR, i |-> pickle_set_result_error(ii, <<"N", "a", "N", ":", " ", "\"">> \o s \o <<"\"">>).i, out |-> 0]

pickle_set_result_error_arity(ii, expected, argv) ==
  LET as == concatenate(<<" ">>, argv, TRUE)
  IN IF as = NoString THEN picolSetResultErrorOutOfMemory(ii)
     ELSE pickle_set_result_error(ii, <<"W", "r", "o", "n", "g", " ", "n", "u", "m", "b", "e", "r", " ", "o", "f", " ", "a", "r", "g", "s", " ", "f", "o", "r", " ", "'">> \o argv[1] \o <<"'", " ", "(", "e", "x", "p", "e", "c", "t", "e", "d", " ">>
            \o picolLongToString(expected - 1, 10) \o <<")", "\n", "G", "o", "t", ":", " ">> \o as)

\* ok: whether the allocations of concatenate succeed
doJoin(ii, join, argv, ok) ==
  LET e == concatenate(join, argv, ok)
  IN IF e = NoString THEN picolSetResultErrorOutOfMemory(ii)
     ELSE LET f == picolFreeResult(ii)
          IN RC(PICKLE_OK, [f EXCEPT !.blocks = Append(@, [s |-> e, frees |-> 0]),
                                     !.static_result = FALSE,
                                     !.result = Len(f.blocks) + 1])

(***************************************************************************)
(* Variables and call frames.                                              *)
(***************************************************************************)
\* the first variable called name in the list of the current frame, 0 if none
FindVar(ii, name) ==
  LET vs == ii.frames[ii.callframe].vars
  IN IF \E k \in 1..Len(vs) : ii.cells[vs[k]].name = name
     THEN vs[CHOOSE k \in 1..Len(vs) : /\ ii.cells[vs[k]].name = name
                                       /\ \A m \in 1..(k - 1) : ii.cells[vs[m]].name # name]
     ELSE 0

\* the loop that follows links in picolGetVar; a cycle would keep the C loop spinning
RECURSIVE FollowLink(_, _, _)
FollowLink(ii, v, fuel) ==
  IF ii.cells[v].type = "PV_LINK" /\ fuel > 0
  THEN FollowLink(ii, ii.cells[v].link, fuel - 1)
  ELSE v

\* the first variable called name in the frame cf or, when it has none, in the
\* frames of its callers
RECURSIVE FindVarAbove(_, _, _)
FindVarAbove(ii, cf, name) ==
  IF FindVar([ii EXCEPT !.callframe = cf], name) # 0 \/ ii.frames[cf].parent = 0
  THEN FindVar([ii EXCEPT !.callframe = cf], name)
  ELSE FindVarAbove(ii, ii.frames[cf].parent, name)

\* a picolGetVar that goes on to the frames of the callers when the current frame
\* does not have the name
picolGetVarAbove(ii, name, link) ==
  LET v == FindVarAbove(ii, ii.callframe, name)
  IN IF v = 0 THEN 0
     ELSE IF link THEN FollowLink(ii, v, Len(ii.cells)) ELSE v

picolGetVar(ii, name, link) ==
  LET v == FindVar(ii, name)
  IN IF v = 0 THEN 0
     ELSE IF link THEN FollowLink(ii, v, Len(ii.cells)) ELSE v

picolGetVarVal(ii, v) == ii.cells[v].val

\* the type picolSetVarString gives a value
ValType(val) == IF picolIsSmallString(val) THEN "PV_SMALL_STRING" ELSE "PV_STRING"

pickle_set_var_string(ii, name, val) ==
  LET v == picolGetVar(ii, name, TRUE)
  IN IF v # 0
     THEN RC(PICKLE_OK, [ii EXCEPT !.cells[v].type = ValType(val), !.cells[v].val = val])
     ELSE RC(PICKLE_OK,
             [ii EXCEPT !.cells = Append(@, [name |-> name, type |-> ValType(val), val |-> val,
                                              link |-> 0, live |-> TRUE]),
                        !.frames[ii.callframe].vars = <<Len(ii.cells) + 1>> \o @])

pickle_get_var_string(ii, name) ==
  LET v == picolGetVar(ii, name, TRUE)
  IN IF v = 0 THEN [rc |-> PICKLE_ERROR, val |-> NoString]
     ELSE [rc |-> PICKLE_OK, val |-> picolGetVarVal(ii, v)]

\* *val = 0, then the conversion of the string of the variable if it has one;
\* pickle_get_var_string hands back no string only with a code other than OK
pickle_get_var_integer(ii, name) ==
  LET g == pickle_get_var_string(ii, name)
  IN IF g.rc # PICKLE_OK THEN [rc |-> PICKLE_ERROR, i |-> ii, out |-> 0]
     ELSE picolConvertLong(ii, g.val)

\* a pickle_set_var_integer that also makes the integer the result
pickle_set_var_integer_and_result(ii, name, r) ==
  pickle_set_result_string(pickle_set_var_string(ii, name, picolLongToString(r, 10)).i,
                           picolLongToString(r, 10), TRUE)

pickle_set_var_integer(ii, name, r) ==
  pickle_set_var_string(ii, name, picolLongToString(r, 10))

\* a picolDropCallFrame that forgets i->level--
picolDropCallFrameKeepsLevel(ii) ==
  LET cf == ii.callframe
  IN [ii EXCEPT !.cells = [c \in DOMAIN @ |->
                             IF \E k \in 1..Len(ii.frames[cf].vars) : ii.frames[cf].vars[k] = c
                             THEN [@[c] EXCEPT !.live = FALSE] ELSE @[c]],
                !.callframe = ii.frames[cf].parent,
                !.frames[cf].live = FALSE]

picolDropCallFrame(ii) ==
  LET cf == ii.callframe
      l == [ii EXCEPT !.level = @ - 1]
  IN IF cf = 0 THEN l
     ELSE [l EXCEPT !.cells = [c \in DOMAIN @ |->
                                 IF \E k \in 1..Len(ii.frames[cf].vars) : ii.frames[cf].vars[k] = c
                                 THEN [@[c] EXCEPT !.live = FALSE] ELSE @[c]],
                    !.callframe = ii.frames[cf].parent,
                    !.frames[cf].live = FALSE]

\* a climb that goes to the parent whatever the level is
ClimbToParent(ii, cf, level) ==
  IF level > 0 /\ ii.frames[cf].parent # 0 THEN ii.frames[cf].parent ELSE cf

\* the loop of picolSetLevel that climbs to the parent at most level times
RECURSIVE Climb(_, _, _)
Climb(ii, cf, level) ==
  IF level > 0 /\ ii.frames[cf].parent # 0 THEN Climb(ii, ii.frames[cf].parent, level - 1) ELSE cf

picolSetLevel(ii, levelStr) ==
  LET top == At(levelStr, 0) = "#"
      c == picolConvertLong(ii, IF top THEN Tail(levelStr) ELSE levelStr)
      level == IF top THEN ii.level - c.out ELSE c.out
  IN IF c.rc # PICKLE_OK THEN RC(PICKLE_ERROR, c.i)
     ELSE IF level < 0
          THEN pickle_set_result_error(ii, <<"I", "n", "v", "a", "l", "i", "d", " ", "l", "e", "v", "e", "l", " ", "p", "a", "s", "s", "e", "d", " ", "t", "o", " ", "'", "u", "p", "l", "e", "v", "e", "l", "/", "u", "p", "v", "a", "r", "'", ":", " ">>
                                           \o picolLongToString(level, 10))
          ELSE RC(PICKLE_OK, [ii EXCEPT !.callframe = Climb(ii, ii.callframe, level)])

(***************************************************************************)
(* Built-in commands that do not call picolEval.  argv[1] is the command   *)
(* name (argv[0] in C) and Len(argv) is argc.                              *)
(***************************************************************************)
picolCommandSet(ii, argv) ==
  IF Len(argv) # 3 /\ Len(argv) # 2 THEN pickle_set_result_error_arity(ii, 3, argv)
  ELSE IF Len(argv) = 2
       THEN LET g == pickle_get_var_string(ii, argv[2])
            IN IF g.rc # PICKLE_OK
               THEN pickle_set_result_error(ii, <<"N", "o", " ", "s", "u", "c", "h", " ", "v", "a", "r", "i", "a", "b", "l", "e", ":", " ">> \o argv[2])
               ELSE pickle_set_result_string(ii, g.val, TRUE)
       ELSE pickle_set_result_string(pickle_set_var_string(ii, argv[2], argv[3]).i, argv[3], TRUE)

picolCommandRetCodes(ii, argv, pd) ==
  IF Len(argv) # 1 THEN pickle_set_result_error_arity(ii, 1, argv)
  ELSE IF pd = PICKLE_BREAK THEN RC(PICKLE_BREAK, ii)
  ELSE IF pd = PICKLE_CONTINUE THEN RC(PICKLE_CONTINUE, ii)
  ELSE RC(PICKLE_OK, ii)

picolCommandReturn(ii, argv) ==
  IF Len(argv) # 1 /\ Len(argv) # 2 /\ Len(argv) # 3 THEN pickle_set_result_error_arity(ii, 3, argv)
  ELSE LET c == IF Len(argv) = 3 THEN picolConvertLong(ii, argv[3])
                ELSE [rc |-> PICKLE_OK, i |-> ii, out |-> PICKLE_RETURN]
       IN IF c.rc # PICKLE_OK THEN RC(PICKLE_ERROR, c.i)
          ELSE IF Len(argv) = 1 THEN RC(PICKLE_RETURN, picolSetResultEmpty(ii).i)
          ELSE RC(c.out, pickle_set_result_string(ii, argv[2], TRUE).i)

\* picolStackOrHeapAlloc on a fresh pickle_stack_or_heap_t: heap tells whether s->p
\* left s->buf; ok: whether picolMalloc succeeds
picolStackOrHeapAlloc(needed, ok) ==
  IF needed <= SMALL_RESULT_BUF_SZ THEN [rc |-> PICKLE_OK, heap |-> FALSE]
  ELSE IF ok THEN [rc |-> PICKLE_OK, heap |-> TRUE]
  ELSE [rc |-> PICKLE_ERROR, heap |-> FALSE]

\* arguments[count++] of picolCommandJoin: a copy of the token when it fits h.buf, and
\* the address of h.buf, whose lifetime ends with the round, when it does not
JoinArgument(tok) ==
  [s |-> tok, dangling |-> picolStackOrHeapAlloc(Len(tok) + 1, TRUE).heap]

\* the copy of a token that keeps the heap block when the token left h.buf
JoinArgumentKept(tok) == [s |-> tok, dangling |-> FALSE]

\* the token loop of picolCommandJoin
RECURSIVE JoinLoop(_, _)
\* the loop ends behind the token picolGetToken returned as g
JoinStop(g, arguments) ==
  \/ g.rc = PICKLE_ERROR
  \/ g.p.type = "PT_EOF"
  \/ g.p.type \notin {"PT_EOL", "PT_SEP"} /\ Len(arguments) >= PICKLE_MAX_ARGS

JoinEnd(g, arguments) ==
  [err |-> IF g.rc = PICKLE_ERROR THEN "parser" ELSE IF g.p.type = "PT_EOF" THEN "" ELSE "count",
   arguments |-> arguments]

\* arguments behind a round that goes on
JoinKeep(g, arguments) ==
  IF g.p.type \in {"PT_EOL", "PT_SEP"} THEN arguments
  ELSE Append(arguments, JoinArgument(TokenText(g.p)))

\* one round of the loop: g is what picolGetToken returned
JoinRound(g, arguments) ==
  IF JoinStop(g, arguments) THEN JoinEnd(g, arguments)
  ELSE JoinLoop(g.p, JoinKeep(g, arguments))

JoinLoop(q, arguments) == JoinRound(picolGetToken(q), arguments)

\* picolCommandJoin behind its loop, which ended with l: words is what arguments reads as
JoinResult(ii, argv, l, words) ==
  [r |-> IF l.err = "parser" THEN pickle_set_result_error(ii, <<"p", "a", "r", "s", "e", "r", " ", "e", "r", "r", "o", "r">>)
         ELSE IF l.err = "count"
              THEN pickle_set_result_error(ii, <<"A", "r", "g", "u", "m", "e", "n", "t", " ", "c", "o", "u", "n", "t", " ", "e", "x", "c", "e", "e", "d", "e", "d", " ", ":", " ">>
                     \o picolLongToString(Len(l.arguments), 10))
         ELSE doJoin(ii, argv[3], words, TRUE),
   overflow |-> l.err = "" /\ ConcatOverflows(argv[3], words),
   badfree |-> Cardinality({k \in 1..Len(l.arguments) : l.arguments[k].dangling})]

JoinWith(ii, argv, buf, l) ==
  JoinResult(ii, argv, l, [k \in 1..Len(l.arguments) |->
                            IF l.arguments[k].dangling THEN buf ELSE l.arguments[k].s])

\* buf: what a read of h.buf gives after the round that owned it has ended.
\* badfree counts the calls of picolFree on the address of h.buf.
picolCommandJoin(ii, argv, buf) ==
  IF Len(argv) # 3
  THEN [r |-> pickle_set_result_error_arity(ii, 3, argv), overflow |-> FALSE, badfree |-> 0]
  ELSE JoinWith(ii, argv, buf, JoinLoop(picolParserInitialize(argv[2], 0), << >>))

string_white_space == <<" ", "\t", "\n", "\r", "VT">>

\* the string behind the leading bytes of s that are in class
RECURSIVE trimleft(_, _)
trimleft(class, s) ==
  IF s # << >> /\ (\E k \in 1..Len(class) : class[k] = s[1]) THEN trimleft(class, Tail(s)) ELSE s

pickle_set_result_integer(ii, result) ==
  pickle_set_result_string(ii, picolLongToString(result, 10), TRUE)

\* the allocation of string range for diff bytes: a diff below 0 is a size_t no
\* allocator can serve, a diff that fits h.buf needs no allocation
RangeAlloc(diff, ok) ==
  IF diff < 0 THEN [rc |-> PICKLE_ERROR, heap |-> FALSE]
  ELSE picolStackOrHeapAlloc(diff, ok)

\* the bytes memcpy(h.p, &arg1[first], diff) reads, up to the terminator of arg1
RangeCopy(arg1, first, diff) == CStr(SubSeq(Append(arg1, NUL), first + 1, first + diff))

\* string range once first <= last is known; ok: whether picolMalloc succeeds.
\* overflow: h.p[diff] = 0 is written behind the diff bytes of the buffer
RangeClamped(ii, arg1, first, last, ok) ==
  IF RangeAlloc((last - first) + 1, ok).rc # PICKLE_OK
  THEN [r |-> RC(PICKLE_ERROR, ii), overflow |-> FALSE]
  ELSE [r |-> pickle_set_result_string(ii, RangeCopy(arg1, first, (last - first) + 1), TRUE),
        overflow |-> (last - first) + 1 >= BufferLength((last - first) + 1)]

\* the branch of picolCommandString for range, argc being 5
picolCommandStringRange(ii, argv, ok) ==
  LET first == picolConvertLong(ii, argv[4])
      last == picolConvertLong(ii, argv[5])
  IN IF first.rc # PICKLE_OK THEN [r |-> RC(PICKLE_ERROR, first.i), overflow |-> FALSE]
     ELSE IF last.rc # PICKLE_OK THEN [r |-> RC(PICKLE_ERROR, last.i), overflow |-> FALSE]
     ELSE IF first.out > last.out THEN [r |-> picolSetResultEmpty(ii), overflow |-> FALSE]
     ELSE RangeClamped(ii, argv[3], IF first.out < 0 THEN 0 ELSE first.out,
                       IF last.out > Len(argv[3]) THEN Len(argv[3]) ELSE last.out, ok)

\* the loop of picolPower: squaring, with the exponent halved each round
RECURSIVE PowerLoop(_, _, _)
PowerLoop(base, exp, result) ==
  IF exp \div 2 = 0 THEN (IF exp % 2 = 1 THEN result * base ELSE result)
  ELSE PowerLoop(base * base, exp \div 2, IF exp % 2 = 1 THEN result * base ELSE result)

\* *r is 0 when the exponent is refused
picolPower(base, exp) ==
  IF exp < 0 THEN [rc |-> PICKLE_ERROR, r |-> 0]
  ELSE [rc |-> PICKLE_OK,
        r |-> PowerLoop(IF base < 0 THEN -base ELSE base, exp, 1) * (IF base < 0 THEN -1 ELSE 1)]

\* picolCommandMath with the private data BPOW
picolCommandMathPow(ii, argv) ==
  IF Len(argv) # 3 THEN pickle_set_result_error_arity(ii, 3, argv)
  ELSE IF picolConvertLong(ii, argv[2]).rc # PICKLE_OK THEN RC(PICKLE_ERROR, picolConvertLong(ii, argv[2]).i)
  ELSE IF picolConvertLong(ii, argv[3]).rc # PICKLE_OK THEN RC(PICKLE_ERROR, picolConvertLong(ii, argv[3]).i)
  ELSE IF picolPower(picolConvertLong(ii, argv[2]).out, picolConvertLong(ii, argv[3]).out).rc # PICKLE_OK
       THEN pickle_set_result_error(ii, <<"I", "n", "v", "a", "l", "i", "d", " ", "p", "o", "w", "e", "r">>)
       ELSE pickle_set_result_integer(ii,
              picolPower(picolConvertLong(ii, argv[2]).out, picolConvertLong(ii, argv[3]).out).r)

\* the token loop of picolCommandLLength: count is the number of tokens that are not
\* PT_SEP, up to PT_EOF
RECURSIVE LLengthLoop(_, _)
\* one round of the loop: g is what picolGetToken returned
LLengthRound(g, count) ==
  IF g.rc # PICKLE_OK THEN [rc |-> PICKLE_ERROR, count |-> count]
  ELSE IF g.p.type = "PT_EOF" THEN [rc |-> PICKLE_OK, count |-> count]
  ELSE LLengthLoop(g.p, IF g.p.type # "PT_SEP" THEN count + 1 ELSE count)

LLengthLoop(q, count) == LLengthRound(picolGetToken(q), count)

\* picolCommandLLength behind its loop, which ended with c
LLengthResult(ii, c) ==
  IF c.rc # PICKLE_OK THEN pickle_set_result_error(ii, <<"p", "a", "r", "s", "e", "r", " ", "e", "r", "r", "o", "r">>)
  ELSE pickle_set_result_integer(ii, IF c.count # 0 THEN c.count - 1 ELSE c.count)

picolCommandLLength(ii, argv) ==
  IF Len(argv) # 2 THEN pickle_set_result_error_arity(ii, 2, argv)
  ELSE LLengthResult(ii, LLengthLoop(picolParserInitialize(trimleft(string_white_space, argv[2]), 0), 0))

\* the token loop of picolCommandLIndex: found when count exceeds index
RECURSIVE LIndexLoop(_, _, _)
\* one round of the loop: g is what picolGetToken returned and n the count behind it
LIndexRound(g, n, index) ==
  IF g.rc # PICKLE_OK THEN [rc |-> PICKLE_ERROR, found |-> FALSE, p |-> g.p]
  ELSE IF g.p.type = "PT_EOF" THEN [rc |-> PICKLE_OK, found |-> FALSE, p |-> g.p]
  ELSE IF index >= 0 /\ n > index THEN [rc |-> PICKLE_OK, found |-> TRUE, p |-> g.p]
  ELSE LIndexLoop(g.p, n, index)

LIndexCount(g, count, index) ==
  LIndexRound(g, IF g.p.type \in {"PT_STR", "PT_CMD", "PT_VAR", "PT_ESC"} THEN count + 1 ELSE count,
              index)

LIndexLoop(q, count, index) == LIndexCount(picolGetToken(q), count, index)

\* picolCommandLIndex behind its loop, which ended with l
LIndexResult(ii, l) ==
  IF l.rc # PICKLE_OK THEN pickle_set_result_error(ii, <<"p", "a", "r", "s", "e", "r", " ", "e", "r", "r", "o", "r">>)
  ELSE IF l.found THEN pickle_set_result_string(ii, TokenText(l.p), TRUE)
  ELSE picolSetResultEmpty(ii)

\* picolCommandLIndex behind picolConvertLong, which returned c
LIndexAt(ii, argv, c) ==
  IF c.rc # PICKLE_OK THEN RC(PICKLE_ERROR, c.i)
  ELSE LIndexResult(ii, LIndexLoop(picolParserInitialize(argv[2], 0), 0, c.out))

picolCommandLIndex(ii, argv) ==
  IF Len(argv) # 3 THEN pickle_set_result_error_arity(ii, 2, argv)
  ELSE LIndexAt(ii, argv, picolConvertLong(ii, argv[3]))

\* the first record called s in the table, 0 (NULL) if there is none
picolGetCommand(ii, s) ==
  IF \E k \in 1..Len(ii.table) : ii.table[k].name = s
  THEN CHOOSE k \in 1..Len(ii.table) : /\ ii.table[k].name = s
                                       /\ \A m \in 1..(k - 1) : ii.table[m].name # s
  ELSE 0

\* a pickle_register_command that does not look the name up first
pickle_register_command_unchecked(ii, name, func, privdata) ==
  RC(PICKLE_OK, [ii EXCEPT !.table = <<[name |-> name, func |-> func, privdata |-> privdata]>> \o @])

pickle_register_command(ii, name, func, privdata) ==
  IF picolGetCommand(ii, name) # 0
  THEN pickle_set_result_error(ii, <<"'">> \o name \o <<"'", " ", "a", "l", "r", "e", "a", "d", "y", " ", "d", "e", "f", "i", "n", "e", "d">>)
  ELSE RC(PICKLE_OK, [ii EXCEPT !.table = <<[name |-> name, func |-> func, privdata |-> privdata]>> \o @])

\* procdata holds the copies of args and body; the third component names the copy
\* of the body as a text that picolEval is given
picolCommandAddProc(ii, name, args, body) ==
  pickle_register_command(AllocText(ii), name, "picolCommandCallProc",
                          <<args, body, ii.ntexts + 1>>)

picolCommandProc(ii, argv) ==
  IF Len(argv) # 4 THEN pickle_set_result_error_arity(ii, 4, argv)
  ELSE picolCommandAddProc(ii, argv[2], argv[3], argv[4])

\* the table without its first record called name
RECURSIVE WithoutCommand(_, _)
WithoutCommand(tab, name) ==
  IF tab = << >> THEN << >>
  ELSE IF Head(tab).name = name THEN Tail(tab)
  ELSE <<Head(tab)>> \o WithoutCommand(Tail(tab), name)

\* picolFreeCmd frees the parameter list and the body of a procedure; freed holds the
\* numbers of the body texts that were freed
picolFreeCmd(ii, c) ==
  IF c.func = "picolCommandCallProc" THEN [ii EXCEPT !.freed = @ \cup {c.privdata[3]}] ELSE ii

picolUnsetCommand(ii, name) ==
  IF picolGetCommand(ii, name) # 0
  THEN RC(PICKLE_OK, [picolFreeCmd(ii, ii.table[picolGetCommand(ii, name)])
                        EXCEPT !.table = WithoutCommand(@, name)])
  ELSE pickle_set_result_error(ii, <<"c", "a", "n", "n", "o", "t", " ", "r", "e", "m", "o", "v", "e", " ", "'">> \o name \o <<"'">>)

\* a rename that copies the record and keeps the source
RenameCopyKeepsSource(ii, np, src, dst) ==
  IF ii.table[np].func = "picolCommandCallProc"
  THEN picolCommandAddProc(ii, dst, ii.table[np].privdata[1], ii.table[np].privdata[2])
  ELSE pickle_register_command(ii, dst, ii.table[np].func, ii.table[np].privdata)

\* pickle_rename_command once dst is known to be neither defined nor empty
RenameCopy(ii, np, src, dst) ==
  LET r == IF ii.table[np].func = "picolCommandCallProc"
           THEN picolCommandAddProc(ii, dst, ii.table[np].privdata[1], ii.table[np].privdata[2])
           ELSE pickle_register_command(ii, dst, ii.table[np].func, ii.table[np].privdata)
  IN IF r.rc < 0 THEN r ELSE picolUnsetCommand(r.i, src)

pickle_rename_command(ii, src, dst) ==
  IF picolGetCommand(ii, dst) # 0
  THEN pickle_set_result_error(ii, <<"'">> \o dst \o <<"'", " ", "a", "l", "r", "e", "a", "d", "y", " ", "d", "e", "f", "i", "n", "e", "d">>)
  ELSE IF dst = string_empty THEN picolUnsetCommand(ii, src)
  ELSE IF picolGetCommand(ii, src) = 0
       THEN pickle_set_result_error(ii, <<"N", "o", "t", " ", "a", " ", "p", "r", "o", "c", ":", " ">> \o src)
       ELSE RenameCopy(ii, picolGetCommand(ii, src), src, dst)

picolCommandRename(ii, argv) ==
  IF Len(argv) # 3 THEN pickle_set_result_error_arity(ii, 3, argv)
  ELSE pickle_rename_command(ii, argv[2], argv[3])

picolCommandConcat(ii, argv) == doJoin(ii, <<" ">>, Tail(argv), TRUE)

\* picolCommandUpVar from the comparison of myVar with otherVar on
UpVarLink(b, cf, myVar, otherVar, mine) ==
  IF myVar = otherVar
  THEN RC(PICKLE_OK,
          [pickle_set_result_error(b, <<"C", "a", "n", "n", "o", "t", " ", "c", "r", "e", "a", "t", "e", " ", "c", "i", "r", "c", "u", "l", "a", "r", " ", "r", "e", "f", "e", "r", "e", "n", "c", "e", " ", "v", "a", "r", "i", "a", "b", "l", "e", " ", "'">>
                                      \o mine \o <<"'">>).i EXCEPT !.callframe = cf])
  ELSE RC(PICKLE_OK, [b EXCEPT !.cells[myVar].type = "PV_LINK",
                               !.cells[myVar].link = otherVar,
                               !.callframe = cf])

\* picolCommandUpVar in the frame picolSetLevel selected: otherVar is found or created
UpVarOther(li, cf, myVar, argv) ==
  LET found == picolGetVar(li, argv[3], TRUE)
  IN IF found = 0
     THEN LET b == pickle_set_var_string(li, argv[3], << >>).i
          IN UpVarLink(b, cf, myVar, Head(b.frames[b.callframe].vars), argv[4])
     ELSE UpVarLink(li, cf, myVar, found, argv[4])

\* picolCommandUpVar after mine was set to the empty string: myVar is the head of the list
UpVarLevel(a, cf, argv) ==
  LET l == picolSetLevel(a, argv[2])
  IN IF l.rc # PICKLE_OK THEN RC(l.rc, [l.i EXCEPT !.callframe = cf])
     ELSE UpVarOther(l.i, cf, Head(a.frames[cf].vars), argv)

picolCommandUpVar(ii, argv) ==
  IF Len(argv) # 4 THEN pickle_set_result_error_arity(ii, 4, argv)
  ELSE UpVarLevel(pickle_set_var_string(ii, argv[4], << >>).i, ii.callframe, argv)

\* picolVarFree: the name, the value and the struct are handed to free
picolVarFree(ii, v) == [ii EXCEPT !.cells[v].live = FALSE]

\* the list of a frame without the variable v
RECURSIVE Unlinked(_, _)
Unlinked(vs, v) ==
  IF vs = << >> THEN << >>
  ELSE IF Head(vs) = v THEN Tail(vs)
  ELSE <<Head(vs)>> \o Unlinked(Tail(vs), v)

picolUnsetVar(ii, name) ==
  LET deleteMe == picolGetVar(ii, name, FALSE)
  IN IF deleteMe = 0
     THEN pickle_set_result_error(ii, <<"C", "a", "n", "n", "o", "t", " ", "u", "n", "s", "e", "t", " ", "'">> \o name \o <<"'", ",", " ", "n", "o", " ", "s", "u", "c", "h", " ", "v", "a", "r", "i", "a", "b", "l", "e">>)
     ELSE RC(PICKLE_OK, picolVarFree([ii EXCEPT !.frames[ii.callframe].vars = Unlinked(@, deleteMe)],
                                     deleteMe))

picolCommandUnSet(ii, argv) ==
  IF Len(argv) # 2 THEN pickle_set_result_error_arity(ii, 2, argv)
  ELSE picolUnsetVar(ii, argv[2])

(***************************************************************************)
(* Construction.  Of the core commands only those modelled here are put    *)
(* in the table.                                                           *)
(***************************************************************************)
\* the array commands of picolRegisterCoreCommands, in its order
CoreCommands == <<
  [name |-> <<"b", "r", "e", "a", "k">>,    func |-> "picolCommandRetCodes", privdata |-> PICKLE_BREAK],
  [name |-> <<"c", "a", "t", "c", "h">>,    func |-> "picolCommandCatch",    privdata |-> 0],
  [name |-> <<"c", "o", "n", "c", "a", "t">>,   func |-> "picolCommandConcat",   privdata |-> 0],
  [name |-> <<"c", "o", "n", "t", "i", "n", "u", "e">>, func |-> "picolCommandRetCodes", privdata |-> PICKLE_CONTINUE],
  [name |-> <<"p", "r", "o", "c">>,     func |-> "picolCommandProc",     privdata |-> 0],
  [name |-> <<"r", "e", "t", "u", "r", "n">>,   func |-> "picolCommandReturn",   privdata |-> 0],
  [name |-> <<"s", "e", "t">>,      func |-> "picolCommandSet",      privdata |-> 0],
  [name |-> <<"u", "n", "s", "e", "t">>,    func |-> "picolCommandUnSet",    privdata |-> 0],
  [name |-> <<"u", "p", "l", "e", "v", "e", "l">>,  func |-> "picolCommandUpLevel",  privdata |-> 0],
  [name |-> <<"u", "p", "v", "a", "r">>,    func |-> "picolCommandUpVar",    privdata |-> 0],
  [name |-> <<"w", "h", "i", "l", "e">>,    func |-> "picolCommandWhile",    privdata |-> 0],
  [name |-> <<"r", "e", "n", "a", "m", "e">>,   func |-> "picolCommandRename",   privdata |-> 0] >>

\* the loop of picolRegisterCoreCommands over the array
RECURSIVE RegisterAll(_, _)
RegisterAll(ii, cmds) ==
  IF cmds = << >> THEN ii
  ELSE RegisterAll(pickle_register_command(ii, Head(cmds).name, Head(cmds).func, Head(cmds).privdata).i,
                   Tail(cmds))

picolRegisterCoreCommands(ii) == pickle_set_var_integer(RegisterAll(ii, CoreCommands), <<"v", "e", "r", "s", "i", "o", "n">>, VERSION)

picolInitialize ==
  picolRegisterCoreCommands(
    [result |-> "string_empty", static_result |-> TRUE, result_buf |-> << >>, blocks |-> << >>,
     callframe |-> 1, level |-> 0,
     frames |-> <<[vars |-> << >>, parent |-> 0, live |-> TRUE]>>,
     cells |-> << >>, table |-> << >>, argvLive |-> 0,
     line |-> 0, ch |-> 0, ntexts |-> 0, heaporder |-> 0, failed |-> 0, tokLost |-> 0,
     freed |-> {}, alists |-> 0]).i

(***************************************************************************)
(* The native call stack.  One record per active C function that is in,    *)
(* or has called, picolEval:                                               *)
(*   kind "eval": an activation of picolEval with its parser p, prevtype   *)
(*     and argv; pc is "tok" (at the head of the token loop), "cmd"        *)
(*     (inside the recursive call for a PT_CMD token) or "call" (inside    *)
(*     c->func);                                                           *)
(*   kind "catch", "while", "callproc", "uplevel": the built-in that is    *)
(*     waiting for picolEval; its argv is the argv of the eval record      *)
(*     below it.  cf is the local `cf` of picolCommandUpLevel.  In a       *)
(*     "callproc" record cf and lvl remember i->callframe and i->level at  *)
(*     the call, which the C code does not store.                          *)
(* returning says that a callee has just returned to the record on top of *)
(* the stack (to the host when the stack is empty), and rv is the code it  *)
(* returned.                                                               *)
(***************************************************************************)
EvalRec(text, base) ==
  [kind |-> "eval", pc |-> "tok", p |-> picolParserInitialize(text, base), prevtype |-> "PT_EOL",
   argv |-> << >>, cf |-> 0, lvl |-> 0, texts |-> << >>]

CmdRec(kind, pc, cf, lvl) ==
  [kind |-> kind, pc |-> pc, p |-> picolParserInitialize(<< >>, 0), prevtype |-> "PT_EOL",
   argv |-> << >>, cf |-> cf, lvl |-> lvl, texts |-> << >>]

Top == stack[Len(stack)]

\* the running C function returns code to its caller
Return(code) == returning' = TRUE /\ rv' = code

\* the C function on top of the stack runs on
Resume == returning' = FALSE /\ rv' = PICKLE_OK

Pop == SubSeq(stack, 1, Len(stack) - 1)
SetTop(rec) == [stack EXCEPT ![Len(stack)] = rec]
CallerArgv == stack[Len(stack) - 1].argv

\* the heap blocks that make up an argv: the array, unless argc is 0, and one per word
ArgvBlocks(argv) == Len(argv) + (IF Len(argv) > 0 THEN 1 ELSE 0)

picolFreeArgList(ii, argv) == [ii EXCEPT !.argvLive = @ - ArgvBlocks(argv)]

\* picolEval is at the given place of its token loop: "tok" before the call of
\* picolGetToken, "perr" after it failed, "sw" at the switch on the type of the token
EvalAt(pc) == stack # << >> /\ ~returning /\ Top.kind = "eval" /\ Top.pc = pc
Running == EvalAt("sw")
TokStr == TokenText(Top.p)

\* a callee has returned to the record of this kind and pc
Returned(kind, pc) == stack # << >> /\ returning /\ Top.kind = kind /\ Top.pc = pc

\* a picolEval that goes to err only when the command returned PICKLE_ERROR
StopsEvaluationOnErrorOnly(retcode) == retcode = PICKLE_ERROR

\* the test of picolEval on the code a command returned
StopsEvaluation(retcode) == retcode # PICKLE_OK

\* the label err of picolEval: free argv and return retcode
GotoErr(ii, retcode) ==
  /\ i' = picolFreeArgList(ii, Top.argv)
  /\ stack' = Pop
  /\ Return(retcode)
  /\ UNCHANGED <<log, nevals, nops>>

\* a round of the token loop that makes a new word of every token
AppendTokenAsWord(ii, t) ==
  /\ i' = [ii EXCEPT !.argvLive = @ + 1 + (IF Len(Top.argv) = 0 THEN 1 ELSE 0)]
  /\ stack' = SetTop([Top EXCEPT !.prevtype = Top.p.type, !.argv = Append(Top.argv, t), !.pc = "tok"])
  /\ Resume
  /\ UNCHANGED <<log, nevals, nops>>

\* the end of a round of the token loop: t becomes a new word or is appended to the last one
AppendToken(ii, t) ==
  LET newarg == Top.prevtype = "PT_SEP" \/ Top.prevtype = "PT_EOL"
      argv == IF newarg THEN Append(Top.argv, t)
              ELSE [Top.argv EXCEPT ![Len(Top.argv)] = @ \o t]
      grown == IF newarg THEN 1 + (IF Len(Top.argv) = 0 THEN 1 ELSE 0) ELSE 0
  IN /\ i' = [ii EXCEPT !.argvLive = @ + grown]
     /\ stack' = SetTop([Top EXCEPT !.prevtype = Top.p.type, !.argv = argv, !.pc = "tok"])
     /\ Resume
     /\ UNCHANGED <<log, nevals, nops>>

\* picolEval is entered for the text number k: the result is emptied and the parser
\* initialized.  The first heap text fixes the order of the heap.
EnterEval(st, ii, text, k) ==
  \E order \in HeapOrders(ii, k) :
    /\ i' = [picolSetResultEmpty(ii).i EXCEPT !.heaporder = order]
    /\ stack' = Append(st, EvalRec(text, TextBase(order, k)))
    /\ Resume

pickle_eval(t) ==
  /\ stack = << >>
  /\ nops = 0
  /\ nevals < MaxEvals
  /\ EnterEval(<< >>, [i EXCEPT !.line = 1, !.ch = TextBase(0, 0) + 1], t, 0)
  /\ nevals' = nevals + 1
  /\ UNCHANGED <<log, nops>>

\* the number of the heap text the parser q reads, 0 for the text of the host
TextNumber(ii, q) == (q.base * ii.heaporder) \div MaxText

\* the text with the bytes that are still to be read replaced by the byte c
Overwritten(q, c) == [k \in 1..Len(q.text) |-> IF k >= q.p THEN c ELSE q.text[k]]

\* what picolGetToken can read: the text, and for a text that was freed also what
\* the allocator or a later allocation wrote there
TextRead(ii, q) ==
  IF q.len # 0 /\ TextNumber(ii, q) \in ii.freed
  THEN {q.text, Overwritten(q, NUL), Overwritten(q, "?")}
  ELSE {q.text}

\* the record of picolEval after picolGetToken returned g
GotToken(g) == [Top EXCEPT !.p = [g.p EXCEPT !.line = 0, !.ch = 0],
                           !.pc = IF g.rc # PICKLE_OK THEN "perr" ELSE "sw"]

\* picolGetToken returned g: the lexer has written the line count through its pointers
TokenStep(g) ==
  /\ stack' = SetTop(GotToken(g))
  /\ i' = [i EXCEPT !.line = g.p.line, !.ch = g.p.ch]

\* the call of picolGetToken at the head of the token loop
EvalGetToken ==
  /\ EvalAt("tok")
  /\ \E t \in TextRead(i, Top.p) :
       TokenStep(picolGetToken([Top.p EXCEPT !.text = t, !.line = i.line, !.ch = i.ch]))
  /\ UNCHANGED <<returning, rv, log, nevals, nops>>

EvalParserError ==
  /\ EvalAt("perr")
  /\ i' = pickle_set_result_error(i, <<"p", "a", "r", "s", "e", "r", " ", "e", "r", "r", "o", "r">>).i
  /\ stack' = Pop
  /\ Return(PICKLE_ERROR)
  /\ UNCHANGED <<log, nevals, nops>>

EvalEOF ==
  /\ Running
  /\ Top.p.type = "PT_EOF"
  /\ GotoErr(i, PICKLE_OK)

EvalVAR ==
  /\ Running
  /\ Top.p.type = "PT_VAR"
  /\ LET v == picolGetVar(i, TokStr, TRUE)
     IN IF v = 0
        THEN LET e == pickle_set_result_error(i, <<"N", "o", " ", "s", "u", "c", "h", " ", "v", "a", "r", "i", "a", "b", "l", "e", " ", "'">> \o TokStr \o <<"'">>)
             IN GotoErr(e.i, e.rc)
        ELSE AppendToken(i, picolGetVarVal(i, v))

EvalCMD ==
  /\ Running
  /\ Top.p.type = "PT_CMD"
  /\ EnterEval(SetTop([Top EXCEPT !.pc = "cmd"]), AllocText(i), TokStr, i.ntexts + 1)
  /\ UNCHANGED <<log, nevals, nops>>

EvalCMDReturn ==
  /\ Returned("eval", "cmd")
  /\ IF rv # PICKLE_OK THEN GotoErr(i, rv)
     ELSE AppendToken(i, ResultString(i))

EvalESC ==
  /\ Running
  /\ Top.p.type = "PT_ESC"
  /\ LET u == picolUnEscape(TokStr, Len(TokStr) + 1)
     IN IF u.rc < 0
        THEN LET e == pickle_set_result_error(i, <<"I", "n", "v", "a", "l", "i", "d", " ", "e", "s", "c", "a", "p", "e", " ", "s", "e", "q", "u", "e", "n", "c", "e", " ", "'">> \o u.s \o <<"'">>)
             IN GotoErr(e.i, e.rc)
        ELSE AppendToken(i, u.s)

\* an allocation of picolEval returns NULL: the result becomes the sentinel and
\* picolEval goes to err; lost is 1 when t holds a block that is not freed on the way
OutOfMemory(lost) ==
  GotoErr([picolSetResultErrorOutOfMemory([i EXCEPT !.failed = @ + 1]).i EXCEPT !.tokLost = @ + lost],
          PICKLE_ERROR)

CanFail == stack # << >> /\ Top.kind = "eval" /\ i.failed < MaxFails

\* t holds the value of the token and is about to become a word or part of one
WordReady ==
  \/ Running /\ Top.p.type = "PT_STR"
  \/ Running /\ Top.p.type = "PT_ESC" /\ picolUnEscape(TokStr, Len(TokStr) + 1).rc >= 0
  \/ Running /\ Top.p.type = "PT_VAR" /\ picolGetVar(i, TokStr, TRUE) # 0
  \/ Returned("eval", "cmd") /\ rv = PICKLE_OK

\* picolMalloc(i, tlen + 1) for the token returns NULL
EvalOomToken == CanFail /\ Running /\ Top.p.type # "PT_EOF" /\ OutOfMemory(0)

\* picolStrdup of the value of the variable returns NULL; t was freed before
EvalOomValue ==
  CanFail /\ Running /\ Top.p.type = "PT_VAR" /\ picolGetVar(i, TokStr, TRUE) # 0 /\ OutOfMemory(0)

\* picolStrdup of the result of the command returns NULL; t was freed before
EvalOomResult == CanFail /\ Returned("eval", "cmd") /\ rv = PICKLE_OK /\ OutOfMemory(0)

\* picolRealloc of argv returns NULL: argv = old, and t is not freed
EvalOomArgv ==
  CanFail /\ WordReady /\ Top.prevtype \in {"PT_SEP", "PT_EOL"} /\ OutOfMemory(1)

\* picolRealloc of the last word returns NULL: t is freed
EvalOomWord ==
  CanFail /\ WordReady /\ Top.prevtype \notin {"PT_SEP", "PT_EOL"} /\ OutOfMemory(0)

EvalSEP ==
  /\ Running
  /\ Top.p.type = "PT_SEP"
  /\ stack' = SetTop([Top EXCEPT !.prevtype = "PT_SEP", !.pc = "tok"])
  /\ UNCHANGED <<i, returning, rv, log, nevals, nops>>

EvalSTR ==
  /\ Running
  /\ Top.p.type = "PT_STR"
  /\ AppendToken(i, TokStr)

\* PT_EOL with an empty argv, or with a command name that is not in the table
EvalEOL ==
  /\ Running
  /\ Top.p.type = "PT_EOL"
  /\ IF Top.argv = << >>
     THEN /\ stack' = SetTop([Top EXCEPT !.prevtype = "PT_EOL", !.pc = "tok"])
          /\ UNCHANGED <<i, returning, rv, log, nevals, nops>>
     ELSE /\ picolGetCommand(i, Top.argv[1]) = 0
          /\ LET e == pickle_set_result_error(i, <<"N", "o", " ", "s", "u", "c", "h", " ", "c", "o", "m", "m", "a", "n", "d", " ", "'">> \o Top.argv[1] \o <<"'">>)
             IN GotoErr(e.i, e.rc)

\* PT_EOL with a command found in the table whose function is func
AtCommand(func) ==
  /\ Running
  /\ Top.p.type = "PT_EOL"
  /\ Top.argv # << >>
  /\ picolGetCommand(i, Top.argv[1]) # 0
  /\ i.table[picolGetCommand(i, Top.argv[1])].func = func
  /\ Len(log) < MaxDispatch

\* the eval record while c->func runs
InCall == [Top EXCEPT !.prevtype = "PT_EOL", !.pc = "call"]

\* c->func has run without calling picolEval and returns r.rc
Called(r) ==
  /\ i' = r.i
  /\ Return(r.rc)
  /\ stack' = SetTop(InCall)
  /\ log' = Append(log, Top.argv)
  /\ UNCHANGED <<nevals, nops>>

\* c->func calls picolEval(text) from the activation rec
Nested(rec, ii, text, k) ==
  /\ EnterEval(Append(SetTop(InCall), rec), ii, text, k)
  /\ log' = Append(log, Top.argv)
  /\ UNCHANGED <<nevals, nops>>

\* picolEval after c->func returned
EvalCallReturn ==
  /\ Returned("eval", "call")
  /\ IF StopsEvaluation(rv) THEN GotoErr(i, rv)
     ELSE /\ i' = picolFreeArgList(i, Top.argv)
          /\ stack' = SetTop([Top EXCEPT !.argv = << >>, !.pc = "tok"])
          /\ Resume
          /\ UNCHANGED <<log, nevals, nops>>

CallSet == AtCommand("picolCommandSet") /\ Called(picolCommandSet(i, Top.argv))

CallRetCodes ==
  /\ AtCommand("picolCommandRetCodes")
  /\ Called(picolCommandRetCodes(i, Top.argv, i.table[picolGetCommand(i, Top.argv[1])].privdata))

CallReturn == AtCommand("picolCommandReturn") /\ Called(picolCommandReturn(i, Top.argv))

CallProc == AtCommand("picolCommandProc") /\ Called(picolCommandProc(i, Top.argv))

CallConcat == AtCommand("picolCommandConcat") /\ Called(picolCommandConcat(i, Top.argv))

CallUpVar == AtCommand("picolCommandUpVar") /\ Called(picolCommandUpVar(i, Top.argv))

CallUnSet == AtCommand("picolCommandUnSet") /\ Called(picolCommandUnSet(i, Top.argv))

CallRename == AtCommand("picolCommandRename") /\ Called(picolCommandRename(i, Top.argv))

\* picolCommandCatch up to its call of picolEval
CallCatch ==
  /\ AtCommand("picolCommandCatch")
  /\ IF Len(Top.argv) # 3 THEN Called(pickle_set_result_error_arity(i, 3, Top.argv))
     ELSE Nested(CmdRec("catch", "script", 0, 0), AllocText(i), Top.argv[2], i.ntexts + 1)

\* a picolCommandCatch that hands on the code of the script
CatchReturnScriptCode ==
  /\ Returned("catch", "script")
  /\ i' = pickle_set_var_integer(i, CallerArgv[3], rv).i
  /\ stack' = Pop
  /\ UNCHANGED <<returning, rv, log, nevals, nops>>

\* picolCommandCatch after picolEval returned
CatchReturn ==
  /\ Returned("catch", "script")
  /\ LET r == pickle_set_var_integer(i, CallerArgv[3], rv)
     IN /\ i' = r.i
        /\ Return(r.rc)
        /\ stack' = Pop
  /\ UNCHANGED <<log, nevals, nops>>

\* picolCommandWhile up to the first evaluation of the condition
CallWhile ==
  /\ AtCommand("picolCommandWhile")
  /\ IF Len(Top.argv) # 3 THEN Called(pickle_set_result_error_arity(i, 3, Top.argv))
     ELSE Nested([CmdRec("while", "cond", 0, 0) EXCEPT !.texts = <<i.ntexts + 1, i.ntexts + 2>>],
                 AllocText(AllocText(i)), Top.argv[2], i.ntexts + 1)

\* picolCommandWhile after the condition was evaluated
WhileCond ==
  /\ Returned("while", "cond")
  /\ LET c == picolConvertLong(i, ResultString(i))
     IN IF rv # PICKLE_OK
        THEN /\ stack' = Pop
             /\ UNCHANGED <<i, returning, rv>>
        ELSE IF c.rc # PICKLE_OK
        THEN /\ i' = c.i
             /\ stack' = Pop
             /\ Return(PICKLE_ERROR)
        ELSE IF c.out = 0
        THEN /\ stack' = Pop
             /\ Return(PICKLE_OK)
             /\ UNCHANGED i
        ELSE EnterEval(SetTop([Top EXCEPT !.pc = "body"]), i, CallerArgv[3], Top.texts[2])
  /\ UNCHANGED <<log, nevals, nops>>

\* a switch without the case PICKLE_CONTINUE
WhileContinuesOnOkOnly(r2) == r2 = PICKLE_OK

\* the switch of picolCommandWhile on the code of the body: does the loop go on
WhileContinues(r2) == r2 = PICKLE_OK \/ r2 = PICKLE_CONTINUE

\* the code picolCommandWhile returns when the body ended the loop
WhileExitCode(r2) == IF r2 = PICKLE_BREAK THEN PICKLE_OK ELSE r2

\* picolCommandWhile after the body was evaluated
WhileBody ==
  /\ Returned("while", "body")
  /\ IF WhileContinues(rv)
     THEN EnterEval(SetTop([Top EXCEPT !.pc = "cond"]), i, CallerArgv[2], Top.texts[1])
     ELSE /\ stack' = Pop
          /\ Return(WhileExitCode(rv))
          /\ UNCHANGED i
  /\ UNCHANGED <<log, nevals, nops>>

\* the names of a parameter list: the runs of bytes between spaces
RECURSIVE SplitArgs(_, _)
SplitArgs(alist, cur) ==
  IF alist = << >> THEN (IF cur = << >> THEN << >> ELSE <<cur>>)
  ELSE IF Head(alist) = " "
       THEN (IF cur = << >> THEN << >> ELSE <<cur>>) \o SplitArgs(Tail(alist), << >>)
       ELSE SplitArgs(Tail(alist), Append(cur, Head(alist)))

\* a binding loop that accepts a call with more arguments than names
RECURSIVE BindArgsAtLeast(_, _, _, _)
BindArgsAtLeast(ii, names, argv, arity) ==
  IF arity = Len(names) THEN [arityerr |-> FALSE, i |-> [ii EXCEPT !.alists = @ - 1]]
  ELSE IF arity + 1 > Len(argv) - 1 THEN [arityerr |-> TRUE, i |-> ii]
  ELSE BindArgsAtLeast(pickle_set_var_string(ii, names[arity + 1], argv[arity + 2]).i, names, argv, arity + 1)

\* the binding loop of picolCommandCallProc: arity is the number of names bound so far.
\* The loop is left for picolFree(i, tofree), or by goto arityerr in front of it.
RECURSIVE BindArgs(_, _, _, _)
BindArgs(ii, names, argv, arity) ==
  IF arity = Len(names)
  THEN [arityerr |-> arity # Len(argv) - 1, i |-> [ii EXCEPT !.alists = @ - 1]]
  ELSE IF arity + 1 > Len(argv) - 1 THEN [arityerr |-> TRUE, i |-> ii]
  ELSE BindArgs(pickle_set_var_string(ii, names[arity + 1], argv[arity + 2]).i, names, argv, arity + 1)

\* a picolCommandCallProc without the test for PICKLE_RETURN
ProcExitCodeUnchanged(errcode) == errcode

\* the code picolCommandCallProc returns for the code of the body
ProcExitCode(errcode) == IF errcode = PICKLE_RETURN THEN PICKLE_OK ELSE errcode

\* the call frame picolCommandCallProc pushes, and p, its copy of the parameter list;
\* alists counts the copies that are allocated
PushCallFrame(ii) ==
  [ii EXCEPT !.frames = Append(@, [vars |-> << >>, parent |-> ii.callframe, live |-> TRUE]),
             !.callframe = Len(ii.frames) + 1,
             !.level = @ + 1,
             !.alists = @ + 1]

\* picolCommandCallProc up to its call of picolEval
CallCallProc ==
  /\ AtCommand("picolCommandCallProc")
  /\ LET argv == Top.argv
         pd == i.table[picolGetCommand(i, argv[1])].privdata
     IN IF i.level > PICKLE_MAX_RECURSION
        THEN Called(pickle_set_result_error(i, <<"R", "e", "c", "u", "r", "s", "i", "o", "n", " ", "l", "i", "m", "i", "t", " ", "e", "x", "c", "e", "e", "d", " ", "(">>
                      \o picolLongToString(PICKLE_MAX_RECURSION, 10) \o <<")">>))
        ELSE LET b == BindArgs(PushCallFrame(i), SplitArgs(pd[1], << >>), argv, 0)
             IN IF b.arityerr
                THEN Called(RC(PICKLE_ERROR,
                       picolDropCallFrame(pickle_set_result_error(b.i,
                         <<"P", "r", "o", "c", " ", "'">> \o argv[1] \o <<"'", " ", "c", "a", "l", "l", "e", "d", " ", "w", "i", "t", "h", " ", "w", "r", "o", "n", "g", " ", "a", "r", "g", " ", "n", "u", "m">>).i)))
                ELSE Nested(CmdRec("callproc", "body", i.callframe, i.level), b.i, pd[2], pd[3])

\* picolCommandCallProc after the body was evaluated
CallProcReturn ==
  /\ Returned("callproc", "body")
  /\ i' = picolDropCallFrame(i)
  /\ Return(ProcExitCode(rv))
  /\ stack' = Pop
  /\ UNCHANGED <<log, nevals, nops>>

\* picolCommandUpLevel up to its call of picolEval
CallUpLevel ==
  /\ AtCommand("picolCommandUpLevel")
  /\ IF Len(Top.argv) < 2 THEN Called(pickle_set_result_error_arity(i, 2, Top.argv))
     ELSE LET cf == i.callframe
              l == picolSetLevel(i, Top.argv[2])
          IN IF l.rc # PICKLE_OK THEN Called(RC(l.rc, [l.i EXCEPT !.callframe = cf]))
             ELSE Nested(CmdRec("uplevel", "script", cf, i.level), AllocText(l.i),
                         concatenate(<<" ">>, SubSeq(Top.argv, 3, Len(Top.argv)), TRUE),
                         i.ntexts + 1)

\* picolCommandUpLevel after picolEval returned
UpLevelReturn ==
  /\ Returned("uplevel", "script")
  /\ i' = [i EXCEPT !.callframe = Top.cf]
  /\ stack' = Pop
  /\ UNCHANGED <<returning, rv, log, nevals, nops>>

(***************************************************************************)
(* The result-setting operations, called by the host on an interpreter     *)
(* that is not evaluating.                                                 *)
(***************************************************************************)
\* a string too long for the inline buffer
LongString == [k \in 1..SMALL_RESULT_BUF_SZ |-> "x"]
ResultStrings == {<< >>, <<"a">>, <<"b", "c">>, LongString, Append(LongString, "y")}
JoinArgvs == {<< >>, <<<<"a">>>>, <<<<"a">>, <<"b">>>>}

HostIdle == stack = << >> /\ nevals = 0 /\ nops < MaxResultOps

HostOp(r) ==
  /\ i' = r.i
  /\ nops' = nops + 1
  /\ UNCHANGED <<stack, returning, rv, log, nevals>>

set_result_string(s, ok) == HostIdle /\ HostOp(pickle_set_result_string(i, s, ok))

set_result_empty == HostIdle /\ HostOp(picolSetResultEmpty(i))

set_result_oom == HostIdle /\ HostOp(picolSetResultErrorOutOfMemory(i))

do_join(argv, ok) == HostIdle /\ HostOp(doJoin(i, <<" ">>, argv, ok))

(***************************************************************************)
(* The command-table operations, called by the host on an interpreter that *)
(* is not evaluating: pickle_register_command, pickle_rename_command, and  *)
(* picolCommandAddProc as `proc` reaches it.  rv holds the code returned.  *)
(***************************************************************************)
\* command names: new ones, the empty string and a core command
TableNames == {<<"a">>, <<"b">>, << >>, <<"s", "e", "t">>}
\* functions the host registers
HostFuncs == {"hostF", "hostG"}
\* parameter lists and bodies of the procedures defined
ProcDefs == {<<<< >>, <<"s", "e", "t", " ", "a", " ", "1">>>>, <<<<"x">>, <<"s", "e", "t", " ", "x">>>>}

TableIdle == stack = << >> /\ nevals = 0 /\ nops < MaxTableOps

TableOp(r) ==
  /\ i' = r.i
  /\ rv' = r.rc
  /\ nops' = nops + 1
  /\ UNCHANGED <<stack, returning, log, nevals>>

register_command(name, func) == TableIdle /\ TableOp(pickle_register_command(i, name, func, 0))

add_proc(name, def) == TableIdle /\ TableOp(picolCommandAddProc(i, name, def[1], def[2]))

rename_command(src, dst) == TableIdle /\ TableOp(pickle_rename_command(i, src, dst))

(***************************************************************************)
(* The variable API called by the host on a fresh interpreter, and the     *)
(* command function of set called with a given argv.  log holds the call   *)
(* made last and what it stored through its output pointer.                *)
(***************************************************************************)
VarNames == {<<"a">>, <<"c">>}

Zeros(n) == [k \in 1..n |-> "0"]

\* the strings of picolTestConvertLong and picolTestGetSetVar, malformed numbers,
\* text that the lexer would not leave alone, and numerals around 64 bytes
VarValues == {<< >>, <<"0">>, <<"1">>, <<"-", "1">>, <<"1", "2", "3">>, <<"+", "-", "1", "2", "3">>, <<"-", "+", "1", "2", "3">>, <<"+", "4">>, <<"4", "x">>, <<"-", "4", "x">>, <<"5", "4">>,
              <<"+">>, <<"-">>, <<" ", "1">>, <<"1", " ">>, <<"0", "x", "1", "0">>, <<"x", " ", "y">>, <<"$", "a">>, <<"[", "c", "]">>, <<"{", "\n", "\\">>,
              Zeros(63), Zeros(64), <<"-">> \o Zeros(62), <<"-">> \o Zeros(63)}

VarIdle == stack = << >> /\ nevals = 0 /\ nops < MaxVarOps

\* a call that returns rc, leaves the interpreter ii and stores out
VarOp(op, name, rc, ii, out) ==
  /\ i' = ii
  /\ rv' = rc
  /\ log' = <<[op |-> op, name |-> name, out |-> out]>>
  /\ nops' = nops + 1
  /\ UNCHANGED <<stack, returning, nevals>>

set_var_string(name, val) ==
  /\ VarIdle
  /\ VarOp("pickle_set_var_string", name, pickle_set_var_string(i, name, val).rc,
           pickle_set_var_string(i, name, val).i, val)

get_var_string(name) ==
  /\ VarIdle
  /\ VarOp("pickle_get_var_string", name, pickle_get_var_string(i, name).rc, i,
           pickle_get_var_string(i, name).val)

get_var_integer(name) ==
  /\ VarIdle
  /\ VarOp("pickle_get_var_integer", name, pickle_get_var_integer(i, name).rc,
           pickle_get_var_integer(i, name).i, pickle_get_var_integer(i, name).out)

\* set name value and set name: the result is what the command hands back
command_set(argv) ==
  /\ VarIdle
  /\ VarOp("picolCommandSet", argv[2], picolCommandSet(i, argv).rc, picolCommandSet(i, argv).i,
           ResultString(picolCommandSet(i, argv).i))

(***************************************************************************)
(* picolUnEscape called on a buffer of its own, as picolTestUnescape calls *)
(* it, and the same texts evaluated as the third word of a set command.    *)
(***************************************************************************)
\* plain bytes, the escapes picolUnEscape knows, hex escapes of one and two digits,
\* and escapes it does not know
EscapeItems == {<<"Z">>, <<"0">>, <<"e">>, <<"x">>,
                <<"\\", "\\">>, <<"\\", "n">>, <<"\\", "t">>, <<"\\", "r">>, <<"\\", "\"">>,
                <<"\\", "[">>, <<"\\", "]">>, <<"\\", "e">>,
                <<"\\", "x", "3">>, <<"\\", "x", "0">>, <<"\\", "x", "E">>, <<"\\", "x", "3", "0">>,
                <<"\\", "x", "0", "0">>, <<"\\", "x", "0", "e">>, <<"\\", "x", "Z">>, <<"\\", "x">>,
                <<"\\", "Z">>, <<"\\", "0">>}

RECURSIVE ItemRuns(_)
ItemRuns(n) == IF n = 0 THEN {<< >>} ELSE ItemRuns(n - 1) \cup {r \o it : r \in ItemRuns(n - 1), it \in EscapeItems}

\* runs of items, and runs that end with a backslash
EscapeTexts == ItemRuns(MaxItems) \cup {r \o <<"\\">> : r \in ItemRuns(MaxItems - 1)}

\* nothing was called yet
EscapeIdle == stack = << >> /\ nevals = 0 /\ nops = 0

\* picolUnEscape(m, picolStrlen(m) + 1) on one of the texts: the return value and the
\* buffer as a string
unescape ==
  /\ EscapeIdle
  /\ \E r \in EscapeTexts :
       VarOp("picolUnEscape", r, picolUnEscape(r, Len(r) + 1).rc, i, picolUnEscape(r, Len(r) + 1).s)

\* pickle_eval of a set command whose third word is one of the texts
eval_word ==
  /\ EscapeIdle
  /\ \E r \in EscapeTexts : pickle_eval(<<"s", "e", "t", " ", "a", " ">> \o r)

\* return with each number of words; the code words are those of VarValues
ReturnValues == {<< >>, <<"x">>, <<"a", " ", "b">>}
ReturnArgvs == {<<<<"r", "e", "t", "u", "r", "n">>>>, <<<<"r", "e", "t", "u", "r", "n">>, <<"x">>, <<"1">>, <<"2">>>>}
               \cup {<<<<"r", "e", "t", "u", "r", "n">>, v>> : v \in ReturnValues}
               \cup {<<<<"r", "e", "t", "u", "r", "n">>, v, c>> : v \in ReturnValues, c \in VarValues}

\* picolCommandReturn called with argv as picolEval calls it: the result is what the
\* command hands back
command_return(argv) ==
  /\ VarIdle
  /\ VarOp("picolCommandReturn", argv, picolCommandReturn(i, argv).rc,
           picolCommandReturn(i, argv).i, ResultString(picolCommandReturn(i, argv).i))

\* lists of words, braces, brackets, variables and each kind of separator
ListBytes == {"a", "b", " ", "\t", "\n", ";", "{", "}", "[", "]", "$"}
ListStrings == UNION {[1..n -> ListBytes] : n \in 0..MaxListLen}
ListIndices == {<<"0">>, <<"1">>, <<"2">>, <<"3">>, <<"-", "1">>, <<"x">>}

\* picolCommandLLength and picolCommandLIndex called with argv as picolEval calls
\* them: the result is what the command hands back
ListOp(op, argv, r) == VarOp(op, argv, r.rc, r.i, ResultString(r.i))

command_llength(argv) == ListOp("picolCommandLLength", argv, picolCommandLLength(i, argv))

command_lindex(argv) == ListOp("picolCommandLIndex", argv, picolCommandLIndex(i, argv))

\* words that fit the small buffer with their NUL, the longest that does, and the
\* shortest that does not
JoinWordSet == {<<"a">>, <<"b", "c">>, [k \in 1..(SMALL_RESULT_BUF_SZ - 1) |-> "x"], LongString}
JoinSeps == {<<" ">>, <<";">>, <<" ", "\n", "\t">>}

RECURSIVE JoinLists(_)
JoinLists(n) ==
  IF n = 0 THEN {<< >>}
  ELSE JoinLists(n - 1) \cup JoinWordSet
       \cup {l \o sep \o w : l \in JoinLists(n - 1) \ {<< >>}, sep \in JoinSeps, w \in JoinWordSet}

\* a list of n one-byte words
RECURSIVE Letters(_)
Letters(n) == IF n = 0 THEN << >> ELSE IF n = 1 THEN <<"a">> ELSE Letters(n - 1) \o <<" ", "a">>

JoinInputs == JoinLists(MaxJoinWords) \cup {Letters(PICKLE_MAX_ARGS), Letters(PICKLE_MAX_ARGS + 1)}
JoinStrings == {<< >>, <<",">>, <<",", " ">>}

\* what a read of h.buf can give once its lifetime has ended: the zeros it was
\* initialized with, what a later round copied there, or any other bytes
Dangles(arguments) == \E k \in 1..Len(arguments) : arguments[k].dangling

DeadBuffer(list) ==
  IF Dangles(JoinLoop(picolParserInitialize(list, 0), << >>).arguments)
  THEN {<< >>, <<"a">>, <<"b", "c">>, <<"?">>}
  ELSE {<< >>}

\* what the string concatenate returns reads as when its write behind the buffer hit
\* memory in use
Smashed == <<"?">>

\* the outcomes of a write behind the end of the buffer: it hits padding, or memory in use
Outcomes(overflow) == IF overflow THEN BOOLEAN ELSE {FALSE}

\* picolCommandJoin called with argv as picolEval calls it
JoinOp(argv, j, smashed) ==
  VarOp("picolCommandJoin", argv, j.r.rc, j.r.i,
        [result |-> IF smashed THEN Smashed ELSE ResultString(j.r.i), badfree |-> j.badfree])

JoinOutcome(argv, j) == \E smashed \in Outcomes(j.overflow) : JoinOp(argv, j, smashed)

command_join(list, join) ==
  \E buf \in DeadBuffer(list) :
    JoinOutcome(<<<<"j", "o", "i", "n">>, list, join>>, picolCommandJoin(i, <<<<"j", "o", "i", "n">>, list, join>>, buf))

\* words shorter than the small buffer and one that fills it
ConcatWordSet == {<<"a">>, <<"b">>, <<"c">>, SubSeq(LongString, 1, SMALL_RESULT_BUF_SZ)}
ConcatJoins == {<< >>, <<",">>, <<"X">>}

RECURSIVE ConcatArgvs(_)
ConcatArgvs(n) ==
  IF n = 0 THEN {<< >>}
  ELSE ConcatArgvs(n - 1) \cup {Append(l, w) : l \in ConcatArgvs(n - 1), w \in ConcatWordSet}

\* concatenate called as concatenateTest calls it; ok: whether its allocation succeeds
call_concatenate(join, argv) ==
  \E ok \in BOOLEAN :
    \E smashed \in Outcomes(ok /\ ConcatOverflows(join, argv)) :
      VarOp("concatenate", <<join, argv>>,
            IF ok /\ Len(argv) <= PICKLE_MAX_ARGS THEN PICKLE_OK ELSE PICKLE_ERROR, i,
            [f |-> IF smashed THEN Smashed ELSE concatenate(join, argv, ok)])

\* picolCommandConcat called with argv as picolEval calls it
ConcatOp(argv, r) == VarOp("picolCommandConcat", argv, r.rc, r.i, [result |-> ResultString(r.i)])

command_concat(argv) == ConcatOp(argv, picolCommandConcat(i, argv))

\* texts with each kind of token, as a new word and appended to a word
OomSources == {
  <<"s", "e", "t", " ", "a", " ", "1", ";", " ", "s", "e", "t", " ", "b", " ", "{", "x", "}", "$", "a", "[", "s", "e", "t", " ", "c", " ", "2", "]", "y", " ", ";", " ", "s", "e", "t", " ", "d", " ", "$", "a">>,
  <<";", "s", "e", "t", " ", "a", " ", "[", "s", "e", "t", " ", "b", " ", "\"", "x", " ", "y", "\"", "]">>}

\* the bytes the lexer tells apart, and one that it does not
LexBytes == {"a", " ", ";", "\n", "[", "]", "{", "}", "$", "\"", "\\", "#"}

RECURSIVE LexTextsOf(_)
LexTextsOf(n) ==
  IF n = 0 THEN {<< >>}
  ELSE LexTextsOf(n - 1) \cup {Append(t, c) : t \in LexTextsOf(n - 1), c \in LexBytes}

\* picolParserInitialize on a text, with the line count disabled as llength has it
lex_start(text) ==
  VarOp("picolParserInitialize", text, PICKLE_OK, i, picolParserInitialize(text, 0))

\* picolGetToken has returned g to a caller that calls it on as long as it returns OK
LexOp(g) == VarOp("picolGetToken", log[1].name, g.rc, i, g.p)

\* calls enough to reach PT_EOF in every text and to go on behind it
lex_token ==
  /\ log # << >>
  /\ log[1].op \in {"picolParserInitialize", "picolGetToken"}
  /\ rv = PICKLE_OK
  /\ nops < MaxLexLen + 4
  /\ LexOp(picolGetToken(log[1].out))

\* the bytes picolParseCommand tells apart, and one that it does not
BracketBytes == {"a", "[", "]", "{", "}", "\\"}

RECURSIVE BracketRunsOf(_)
BracketRunsOf(n) ==
  IF n = 0 THEN {<< >>}
  ELSE BracketRunsOf(n - 1) \cup {Append(t, c) : t \in BracketRunsOf(n - 1), c \in BracketBytes}

\* texts that start with an opening bracket
BracketTexts == {<<"[">> \o r : r \in BracketRunsOf(MaxBracketLen)} \cup {<<"[", "s", "e", "t", " ", "x", " ", "{", "]", "}", "]">>}

\* procedures that read and set names their caller has, that link to them, whose
\* variables are looked for after the call, that rename or remove themselves, and
\* that are called with too few and too many arguments
CallSources == {
  <<"s", "e", "t", " ", "x", " ", "1", ";", " ", "p", "r", "o", "c", " ", "f", " ", "{", "}", " ", "{", "s", "e", "t", " ", "y", " ", "$", "x", "}", ";", " ", "f">>,
  <<"s", "e", "t", " ", "x", " ", "1", ";", " ", "p", "r", "o", "c", " ", "f", " ", "{", "}", " ", "{", "s", "e", "t", " ", "x", "}", ";", " ", "f">>,
  <<"s", "e", "t", " ", "x", " ", "1", ";", " ", "p", "r", "o", "c", " ", "f", " ", "{", "}", " ", "{", "s", "e", "t", " ", "x", " ", "2", ";", " ", "s", "e", "t", " ", "x", "}", ";", " ", "f", ";", " ", "s", "e", "t", " ", "x">>,
  <<"s", "e", "t", " ", "x", " ", "1", ";", " ", "p", "r", "o", "c", " ", "f", " ", "{", "}", " ", "{", "u", "p", "v", "a", "r", " ", "1", " ", "x", " ", "y", ";", " ", "s", "e", "t", " ", "y", " ", "2", ";", " ", "s", "e", "t", " ", "y", "}", ";", " ", "f", ";", " ", "s", "e", "t", " ", "x">>,
  <<"p", "r", "o", "c", " ", "g", " ", "{", "}", " ", "{", "s", "e", "t", " ", "x", "}", ";", " ", "p", "r", "o", "c", " ", "f", " ", "{", "}", " ", "{", "s", "e", "t", " ", "x", " ", "1", ";", " ", "g", "}", ";", " ", "f">>,
  <<"p", "r", "o", "c", " ", "g", " ", "{", "}", " ", "{", "s", "e", "t", " ", "x", " ", "2", "}", ";", " ", "p", "r", "o", "c", " ", "f", " ", "{", "}", " ", "{", "s", "e", "t", " ", "x", " ", "1", ";", " ", "g", ";", " ", "s", "e", "t", " ", "x", "}", ";", " ", "f">>,
  <<"p", "r", "o", "c", " ", "f", " ", "{", "a", "}", " ", "{", "s", "e", "t", " ", "b", " ", "$", "a", "}", ";", " ", "f", " ", "1", ";", " ", "s", "e", "t", " ", "b">>,
  <<"p", "r", "o", "c", " ", "f", " ", "{", "a", "}", " ", "{", "s", "e", "t", " ", "b", " ", "[", "s", "e", "t", " ", "a", "]", "}", ";", " ", "f", " ", "1", ";", " ", "s", "e", "t", " ", "a">>,
  <<"s", "e", "t", " ", "x", " ", "1", ";", " ", "p", "r", "o", "c", " ", "f", " ", "{", "}", " ", "{", "u", "p", "l", "e", "v", "e", "l", " ", "1", " ", "{", "s", "e", "t", " ", "x", " ", "2", "}", ";", " ", "s", "e", "t", " ", "x", "}", ";", " ", "f">>,
  <<"p", "r", "o", "c", " ", "f", " ", "{", "}", " ", "{", "r", "e", "n", "a", "m", "e", " ", "f", " ", "{", "}", ";", " ", "s", "e", "t", " ", "a", " ", "1", "}", ";", " ", "f">>,
  <<"p", "r", "o", "c", " ", "f", " ", "{", "}", " ", "{", "r", "e", "n", "a", "m", "e", " ", "f", " ", "g", ";", " ", "s", "e", "t", " ", "a", " ", "1", "}", ";", " ", "f", ";", " ", "g">>,
  <<"p", "r", "o", "c", " ", "f", " ", "{", "}", " ", "{", "r", "e", "n", "a", "m", "e", " ", "f", " ", "{", "}", "}", ";", " ", "f">>,
  <<"p", "r", "o", "c", " ", "f", " ", "{", "}", " ", "{", "s", "e", "t", " ", "a", " ", "1", "}", ";", " ", "r", "e", "n", "a", "m", "e", " ", "f", " ", "g", ";", " ", "g">>,
  <<"p", "r", "o", "c", " ", "f", " ", "{", "a", " ", "b", "}", " ", "{", "s", "e", "t", " ", "a", "}", ";", " ", "f", " ", "1">>,
  <<"p", "r", "o", "c", " ", "f", " ", "{", "a", " ", "b", "}", " ", "{", "s", "e", "t", " ", "a", "}", ";", " ", "f", " ", "1", " ", "2", " ", "3">>,
  <<"p", "r", "o", "c", " ", "f", " ", "{", "a", " ", "b", "}", " ", "{", "s", "e", "t", " ", "a", "}", ";", " ", "f", " ", "1", " ", "2">>,
  <<"p", "r", "o", "c", " ", "f", " ", "{", "a", "}", " ", "{", "f", "o", "o", "}", ";", " ", "f", " ", "1">>,
  <<"p", "r", "o", "c", " ", "f", " ", "{", "a", "}", " ", "{", "r", "e", "t", "u", "r", "n", " ", "$", "a", "}", ";", " ", "f", " ", "1">>}

\* pickle_eval of a text that defines and calls procedures
eval_calls ==
  /\ EscapeIdle
  /\ \E t \in CallSources : pickle_eval(t)

\* the bases and the exponents given to pow, as the decimal strings of argv
PowBases == {picolLongToString(k, 10) : k \in (0 - MaxPowBase)..MaxPowBase}
PowExps == {picolLongToString(k, 10) : k \in (0 - 2)..MaxPowExp}

\* picolCommandMath called for pow with argv as picolEval calls it
PowOp(argv, r) == VarOp("picolCommandMath", argv, r.rc, r.i, [result |-> ResultString(r.i)])

command_pow(a, b) == PowOp(<<<<"p", "o", "w">>, a, b>>, picolCommandMathPow(i, <<<<"p", "o", "w">>, a, b>>))

\* the strings given to string range: empty, short, and as long as h.buf
RangeStrings == {<< >>, <<"a">>, <<"a", "b", "c">>, SubSeq(LongString, 1, SMALL_RESULT_BUF_SZ)}

\* the indexes, as the decimal strings of argv: around 0 and the ends of the short
\* strings, and at the end of the long one
RangeIndexes ==
  {picolLongToString(k, 10) :
     k \in ((0 - 2)..MaxRangeIndex) \cup {SMALL_RESULT_BUF_SZ - 1, SMALL_RESULT_BUF_SZ}}

\* picolCommandString called for range with argv as picolEval calls it
RangeOp(argv, c, smashed) ==
  VarOp("picolCommandString", argv, c.r.rc, c.r.i,
        [result |-> IF smashed THEN Smashed ELSE ResultString(c.r.i), overflow |-> c.overflow])

RangeOutcome(argv, c) == \E smashed \in Outcomes(c.overflow) : RangeOp(argv, c, smashed)

command_string_range(str, first, last) ==
  \E ok \in BOOLEAN :
    RangeOutcome(<<<<"s", "t", "r", "i", "n", "g">>, <<"r", "a", "n", "g", "e">>, str, first, last>>,
                 picolCommandStringRange(i, <<<<"s", "t", "r", "i", "n", "g">>, <<"r", "a", "n", "g", "e">>, str, first, last>>, ok))

\* sources with newlines inside and behind nested texts: a command substitution, a
\* procedure body, a while body, and one without nested text
LineTexts == {
  <<"s", "e", "t", " ", "a", " ", "2", "\n", "f", "o", "o">>,
  <<"s", "e", "t", " ", "a", " ", "[", "s", "e", "t", " ", "b", " ", "1", "\n", "]", "\n", "f", "o", "o">>,
  <<"s", "e", "t", " ", "a", " ", "[", "s", "e", "t", " ", "b", " ", "1", "\n", "]", "\n", "s", "e", "t", " ", "c", " ", "2", "\n", "f", "o", "o">>,
  <<"p", "r", "o", "c", " ", "f", " ", "{", "}", " ", "{", "s", "e", "t", " ", "a", " ", "1", "\n", "s", "e", "t", " ", "b", " ", "2", "\n", "}", "\n", "f", "\n", "f", "o", "o">>,
  <<"s", "e", "t", " ", "c", " ", "1", "\n", "w", "h", "i", "l", "e", " ", "{", "s", "e", "t", " ", "c", "}", " ", "{", "s", "e", "t", " ", "c", " ", "0", "\n", "}", "\n", "f", "o", "o">>,
  <<"s", "e", "t", " ", "a", " ", "[", "s", "e", "t", " ", "b", " ", "[", "s", "e", "t", " ", "c", " ", "1", "\n", "]", "\n", "]", "\n", "f", "o", "o">>}

\* the host evaluates a source in a new interpreter and notes the source
eval_source ==
  /\ EscapeIdle
  /\ \E t \in LineTexts :
       /\ EnterEval(<< >>, [i EXCEPT !.line = 1, !.ch = TextBase(0, 0) + 1], t, 0)
       /\ log' = <<<<t>>>>
  /\ nevals' = 1
  /\ UNCHANGED nops

\* the evaluation has returned: the host notes the line counter and the result, and
\* evaluates the same source in another new interpreter, whose allocator is free to
\* place the heap texts on the other side of the source
eval_source_again ==
  /\ stack = << >>
  /\ returning
  /\ nevals = 1
  /\ EnterEval(<< >>, [picolInitialize EXCEPT !.line = 1, !.ch = TextBase(0, 0) + 1], log[1][1], 0)
  /\ log' = <<log[1], <<picolLongToString(i.line, 10), ResultString(i)>>>>
  /\ nevals' = 2
  /\ UNCHANGED nops

\* one token of each kind, a separator and the end of a command
WordItems == {<<"a">>, <<"$", "v">>, <<"[", "s", "e", "t", " ", "v", " ", "b", "]">>, <<"{", "c", " ", "d", "}">>, <<"\\", "t">>, <<" ">>, <<";">>}

RECURSIVE WordRunsOf(_)
WordRunsOf(n) == IF n = 0 THEN {<< >>} ELSE WordRunsOf(n - 1) \cup {r \o it : r \in WordRunsOf(n - 1), it \in WordItems}

\* pickle_eval of a command line whose words are built from runs of tokens
eval_words ==
  /\ EscapeIdle
  /\ \E r \in WordRunsOf(MaxWordItems) : pickle_eval(<<"s", "e", "t", " ", "v", " ", "1", ";", "c", "o", "n", "c", "a", "t", " ">> \o r)

\* the bytes and escapes a brace group is made of
BraceItems == {<<"a">>, <<"{">>, <<"}">>, <<"\\", "{">>, <<"\\", "}">>, <<"\\", "\\">>,
               <<"\\", "n">>, <<"$", "a">>, <<"[", "b", "]">>, <<" ">>, <<";">>}

RECURSIVE BraceRuns(_)
BraceRuns(n) == IF n = 0 THEN {<< >>} ELSE BraceRuns(n - 1) \cup {r \o it : r \in BraceRuns(n - 1), it \in BraceItems}

\* runs of items, and runs that end with a backslash
BraceTexts == BraceRuns(MaxBraceItems) \cup {r \o <<"\\">> : r \in BraceRuns(MaxBraceItems - 1)}

\* the head of a set command up to the opening brace of its third word
SetBrace == <<"s", "e", "t", " ", "a", " ", "{">>

\* pickle_eval of a set command whose third word starts with an opening brace
eval_brace ==
  /\ EscapeIdle
  /\ \E r \in BraceTexts : pickle_eval(SetBrace \o r)

(***************************************************************************)
(* The source texts given to pickle_eval.                                  *)
(***************************************************************************)
WsChars == {" ", "\t", "\r"}
WsRuns == UNION {[1..n -> WsChars] : n \in 0..MaxWs}

\* two commands with a run of inline whitespace and a separator between them
TwoCommands(ws, sep) == <<"s", "e", "t", " ", "a", " ", "1">> \o ws \o <<sep>> \o <<"s", "e", "t", " ", "b", " ", "2">>
SeparatorSources == {TwoCommands(ws, sep) : ws \in WsRuns, sep \in {"\n", ";"}}

\* a command that returns a code other than OK, between two commands that set a
Stoppers == {<<"r", "e", "t", "u", "r", "n", " ", "x">>, <<"r", "e", "t", "u", "r", "n">>, <<"b", "r", "e", "a", "k">>, <<"c", "o", "n", "t", "i", "n", "u", "e">>, <<"r", "e", "t", "u", "r", "n", " ", "x", " ", "-", "1">>, <<"r", "e", "t", "u", "r", "n", " ", "x", " ", "7">>,
             <<"r", "e", "t", "u", "r", "n", " ", "x", " ", "0">>, <<"s", "e", "t">>, <<"s", "e", "t", " ", "n", "o", "p", "e">>, <<"p", "r", "o", "c", " ", "f", " ", "{", "}", " ", "{", "r", "e", "t", "u", "r", "n", " ", "y", " ", "2", "}", ";", " ", "f">>}
StopSources == {<<"s", "e", "t", " ", "a", " ", "1", ";", " ">> \o st \o <<";", " ", "s", "e", "t", " ", "a", " ", "2">> : st \in Stoppers}

\* sources whose evaluation ends with each kind of return code
ArgvSources == {
  << >>,
  <<"s", "e", "t", " ", "a", " ", "1">>,
  <<"s", "e", "t", " ", "a", " ", "b", " ", "c", " ", "d">>,
  <<"f", "o", "o", " ", "x", " ", "y">>,
  <<"s", "e", "t", " ", "a", " ", "$", "n", "o", "p", "e">>,
  <<"s", "e", "t", " ", "a", " ", "\"", "x", "\\", "q", "\"">>,
  <<"s", "e", "t", " ", "a", " ", "[", "b", "\\">>,
  <<"s", "e", "t", " ", "a", " ", "x", "[", "s", "e", "t", "\\">>,
  <<"s", "e", "t", " ", "a", " ", "[", "s", "e", "t", " ", "b", " ", "2", "]", "c", "$", "a">>,
  <<"s", "e", "t", " ", "a", " ", "[", "f", "o", "o", "]">>,
  <<"s", "e", "t", " ", "a", " ", "{", "x", " ", "y", "}", " ", ";", " ", "#", " ", "c", "\n", "#", " ", "d", "\n", "s", "e", "t", " ", "b", " ", "$", "a", "$", "v", "e", "r", "s", "i", "o", "n">>,
  <<"c", "o", "n", "c", "a", "t", " ", "a", " ", "b", ";", " ", "s", "e", "t", " ", "x", " ", "1">>,
  <<"c", "o", "n", "c", "a", "t">>}

\* bodies of a procedure f that end with each code
ProcBodies == {<<"r", "e", "t", "u", "r", "n", " ", "5">>, <<"r", "e", "t", "u", "r", "n">>, <<"b", "r", "e", "a", "k">>, <<"c", "o", "n", "t", "i", "n", "u", "e">>, <<"f", "o", "o">>, <<"r", "e", "t", "u", "r", "n", " ", "x", " ", "7">>,
               <<"s", "e", "t", " ", "a", " ", "1">>, <<"r", "e", "t", "u", "r", "n", " ", "x", " ", "-", "1">>, << >>}
ProcSources ==
  {<<"p", "r", "o", "c", " ", "f", " ", "{", "}", " ", "{">> \o b \o <<"}", ";", " ", "f", ";", " ", "s", "e", "t", " ", "r">> : b \in ProcBodies} \cup {
  <<"p", "r", "o", "c", " ", "f", " ", "{", "x", "}", " ", "{", "s", "e", "t", " ", "x", "}", ";", " ", "f">>,
  <<"p", "r", "o", "c", " ", "f", " ", "{", "x", "}", " ", "{", "s", "e", "t", " ", "x", "}", ";", " ", "f", " ", "1", " ", "2">>,
  <<"p", "r", "o", "c", " ", "f", " ", "{", "x", " ", "y", "}", " ", "{", "s", "e", "t", " ", "y", "}", ";", " ", "f", " ", "1", " ", "2">>,
  <<"p", "r", "o", "c", " ", "f", " ", "{", "x", " ", "y", "}", " ", "{", "s", "e", "t", " ", "x", " ", "9", "}", ";", " ", "s", "e", "t", " ", "x", " ", "1", ";", " ", "f", " ", "7">>,
  <<"p", "r", "o", "c", " ", "f", " ", "{", "x", " ", "y", "}", " ", "{", "s", "e", "t", " ", "x", " ", "9", "}", ";", " ", "p", "r", "o", "c", " ", "g", " ", "{", "}", " ", "{", "s", "e", "t", " ", "x", " ", "1", ";", " ", "f", " ", "7", " ", "8", " ", "9", "}", ";", " ", "g">>,
  <<"p", "r", "o", "c", " ", "g", " ", "{", "}", " ", "{", "r", "e", "t", "u", "r", "n", " ", "1", "}", ";", " ", "p", "r", "o", "c", " ", "f", " ", "{", "}", " ", "{", "g", ";", " ", "u", "p", "l", "e", "v", "e", "l", " ", "1", " ", "g", ";", " ", "g", " ", "x", "}", ";", " ", "f">>,
  <<"p", "r", "o", "c", " ", "f", " ", "{", "}", " ", "{", "u", "p", "l", "e", "v", "e", "l", " ", "1", " ", "{", "s", "e", "t", " ", "a", " ", "1", "}", "}", ";", " ", "f", ";", " ", "s", "e", "t", " ", "a">>,
  <<"p", "r", "o", "c", " ", "f", " ", "{", "}", " ", "{", "u", "p", "l", "e", "v", "e", "l", " ", "#", "0", " ", "s", "e", "t", " ", "a", " ", "1", ";", " ", "u", "p", "l", "e", "v", "e", "l", " ", "1", " ", "f", "o", "o", "}", ";", " ", "f">>,
  <<"p", "r", "o", "c", " ", "f", " ", "{", "}", " ", "{", "f", "}", ";", " ", "f">>,
  <<"p", "r", "o", "c", " ", "f", " ", "{", "}", " ", "{", "}", ";", " ", "p", "r", "o", "c", " ", "f", " ", "{", "}", " ", "{", "}">>,
  <<"p", "r", "o", "c", " ", "f", " ", "{", "}", " ", "{", "u", "p", "l", "e", "v", "e", "l", " ", "1", " ", "{", "b", "r", "e", "a", "k", "}", ";", " ", "s", "e", "t", " ", "a", " ", "1", "}", ";", " ", "f">>,
  <<"p", "r", "o", "c", " ", "f", " ", "{", "}", " ", "{", "u", "p", "l", "e", "v", "e", "l", " ", "1", " ", "c", "o", "n", "t", "i", "n", "u", "e", "}", ";", " ", "f">>,
  <<"p", "r", "o", "c", " ", "f", " ", "{", "}", " ", "{", "u", "p", "l", "e", "v", "e", "l", " ", "1", " ", "r", "e", "t", "u", "r", "n", " ", "x", ";", " ", "s", "e", "t", " ", "a", " ", "1", "}", ";", " ", "f">>,
  <<"p", "r", "o", "c", " ", "f", " ", "{", "}", " ", "{", "u", "p", "l", "e", "v", "e", "l", " ", "1", " ", "{", "r", "e", "t", "u", "r", "n", " ", "x", " ", "7", "}", "}", ";", " ", "f">>,
  <<"p", "r", "o", "c", " ", "g", " ", "{", "}", " ", "{", "u", "p", "l", "e", "v", "e", "l", " ", "2", " ", "{", "s", "e", "t", " ", "a", " ", "1", "}", ";", " ", "u", "p", "l", "e", "v", "e", "l", " ", "1", " ", "s", "e", "t", " ", "b", " ", "2", "}", ";", " ", "p", "r", "o", "c", " ", "f", " ", "{", "}", " ", "{", "g", "}", ";", " ", "f">>,
  <<"p", "r", "o", "c", " ", "g", " ", "{", "}", " ", "{", "u", "p", "l", "e", "v", "e", "l", " ", "#", "1", " ", "{", "s", "e", "t", " ", "a", " ", "1", "}", ";", " ", "u", "p", "l", "e", "v", "e", "l", " ", "5", " ", "s", "e", "t", " ", "b", " ", "1", ";", " ", "u", "p", "l", "e", "v", "e", "l", " ", "#", "3", " ", "s", "e", "t", " ", "c", " ", "1", "}", ";", " ", "p", "r", "o", "c", " ", "f", " ", "{", "}", " ", "g", ";", " ", "f">>,
  <<"u", "p", "l", "e", "v", "e", "l", " ", "x", ";", " ", "u", "p", "l", "e", "v", "e", "l">>,
  <<"u", "p", "l", "e", "v", "e", "l", " ", "-", "1", " ", "s", "e", "t", " ", "a", " ", "1">>}

WhileBodies == {<<"s", "e", "t", " ", "c", " ", "0">>, <<"b", "r", "e", "a", "k">>, <<"s", "e", "t", " ", "c", " ", "0", ";", " ", "c", "o", "n", "t", "i", "n", "u", "e", ";", " ", "s", "e", "t", " ", "c", " ", "1">>, <<"r", "e", "t", "u", "r", "n", " ", "x", " ", "7">>,
                <<"r", "e", "t", "u", "r", "n", " ", "x">>, <<"f", "o", "o">>, <<"c", "o", "n", "t", "i", "n", "u", "e">>, <<"r", "e", "t", "u", "r", "n", " ", "x", " ", "-", "1">>}
WhileSources ==
  {<<"s", "e", "t", " ", "c", " ", "1", ";", " ", "w", "h", "i", "l", "e", " ", "{", "s", "e", "t", " ", "c", "}", " ", "{">> \o b \o <<"}", ";", " ", "s", "e", "t", " ", "c">> : b \in WhileBodies} \cup {
  <<"s", "e", "t", " ", "c", " ", "0", ";", " ", "w", "h", "i", "l", "e", " ", "{", "s", "e", "t", " ", "c", "}", " ", "{", "f", "o", "o", "}">>,
  <<"s", "e", "t", " ", "c", " ", "x", ";", " ", "w", "h", "i", "l", "e", " ", "{", "s", "e", "t", " ", "c", "}", " ", "{", "s", "e", "t", " ", "c", " ", "0", "}">>,
  <<"w", "h", "i", "l", "e", " ", "{", "s", "e", "t", " ", "z", "z", "}", " ", "{", "s", "e", "t", " ", "c", " ", "0", "}">>,
  <<"w", "h", "i", "l", "e", " ", "{", "b", "r", "e", "a", "k", "}", " ", "{", "s", "e", "t", " ", "c", " ", "0", "}">>,
  <<"w", "h", "i", "l", "e", " ", "{", "c", "o", "n", "t", "i", "n", "u", "e", "}", " ", "{", "s", "e", "t", " ", "c", " ", "0", "}">>,
  <<"w", "h", "i", "l", "e", " ", "{", "r", "e", "t", "u", "r", "n", " ", "1", "}", " ", "{", "s", "e", "t", " ", "c", " ", "0", "}">>,
  <<"w", "h", "i", "l", "e", " ", "1">>,
  <<"s", "e", "t", " ", "c", " ", "2", ";", " ", "w", "h", "i", "l", "e", " ", "{", "s", "e", "t", " ", "c", "}", " ", "{", "w", "h", "i", "l", "e", " ", "{", "s", "e", "t", " ", "c", "}", " ", "{", "s", "e", "t", " ", "c", " ", "0", ";", " ", "b", "r", "e", "a", "k", "}", ";", " ", "b", "r", "e", "a", "k", "}">>}

CatchScripts == {<<"f", "o", "o">>, <<"r", "e", "t", "u", "r", "n", " ", "x">>, <<"b", "r", "e", "a", "k">>, <<"c", "o", "n", "t", "i", "n", "u", "e">>, <<"s", "e", "t", " ", "a", " ", "1">>, <<"r", "e", "t", "u", "r", "n", " ", "x", " ", "7">>, <<"s", "e", "t">>}
CatchSources ==
  {<<"c", "a", "t", "c", "h", " ", "{">> \o sc \o <<"}", " ", "r", ";", " ", "s", "e", "t", " ", "a", " ", "2">> : sc \in CatchScripts} \cup {
  <<"c", "a", "t", "c", "h", " ", "{", "f", "o", "o", "}", " ", "r">>,
  <<"c", "a", "t", "c", "h", " ", "{", "f", "o", "o", "}">>,
  <<"p", "r", "o", "c", " ", "f", " ", "{", "}", " ", "{", "c", "a", "t", "c", "h", " ", "{", "f", "o", "o", "}", " ", "r", ";", " ", "s", "e", "t", " ", "r", "}", ";", " ", "f">>,
  <<"u", "p", "v", "a", "r", " ", "0", " ", "q", " ", "r", ";", " ", "c", "a", "t", "c", "h", " ", "{", "f", "o", "o", "}", " ", "r">>}

UpVarSources == {
  <<"p", "r", "o", "c", " ", "f", " ", "{", "}", " ", "{", "u", "p", "v", "a", "r", " ", "1", " ", "g", " ", "x", ";", " ", "s", "e", "t", " ", "x", " ", "5", "}", ";", " ", "f", ";", " ", "s", "e", "t", " ", "g">>,
  <<"s", "e", "t", " ", "g", " ", "1", ";", " ", "p", "r", "o", "c", " ", "f", " ", "{", "}", " ", "{", "u", "p", "v", "a", "r", " ", "1", " ", "g", " ", "x", ";", " ", "s", "e", "t", " ", "x", "}", ";", " ", "f">>,
  <<"p", "r", "o", "c", " ", "f", " ", "{", "x", " ", "y", "}", " ", "{", "u", "p", "v", "a", "r", " ", "1", " ", "g", " ", "x", ";", " ", "s", "e", "t", " ", "x", " ", "5", "}", ";", " ", "f", " ", "1", " ", "2", ";", " ", "s", "e", "t", " ", "g">>,
  <<"p", "r", "o", "c", " ", "f", " ", "{", "x", " ", "y", "}", " ", "{", "u", "p", "v", "a", "r", " ", "1", " ", "g", " ", "y", ";", " ", "s", "e", "t", " ", "y", " ", "5", "}", ";", " ", "f", " ", "1", " ", "2", ";", " ", "s", "e", "t", " ", "g">>,
  <<"s", "e", "t", " ", "a", " ", "1", ";", " ", "s", "e", "t", " ", "b", " ", "2", ";", " ", "u", "p", "v", "a", "r", " ", "0", " ", "c", " ", "a", ";", " ", "s", "e", "t", " ", "a", " ", "3">>,
  <<"s", "e", "t", " ", "a", " ", "1", ";", " ", "u", "p", "v", "a", "r", " ", "0", " ", "c", " ", "a", ";", " ", "s", "e", "t", " ", "a", " ", "3">>,
  <<"u", "p", "v", "a", "r", " ", "#", "0", " ", "c", " ", "a", ";", " ", "s", "e", "t", " ", "a", " ", "3">>,
  <<"u", "p", "v", "a", "r", " ", "0", " ", "x", " ", "x">>,
  <<"u", "p", "v", "a", "r", " ", "0", " ", "x">>,
  <<"u", "p", "v", "a", "r", " ", "z", " ", "c", " ", "a">>,
  <<"u", "p", "v", "a", "r", " ", "-", "1", " ", "c", " ", "a">>}

\* variables unset at the head and inside the list of a frame, links and their targets
UnsetSources == {
  <<"s", "e", "t", " ", "a", " ", "1", ";", " ", "u", "n", "s", "e", "t", " ", "a", ";", " ", "s", "e", "t", " ", "a">>,
  <<"s", "e", "t", " ", "a", " ", "1", ";", " ", "s", "e", "t", " ", "b", " ", "2", ";", " ", "u", "n", "s", "e", "t", " ", "a", ";", " ", "s", "e", "t", " ", "b">>,
  <<"s", "e", "t", " ", "a", " ", "1", ";", " ", "s", "e", "t", " ", "b", " ", "2", ";", " ", "u", "n", "s", "e", "t", " ", "v", "e", "r", "s", "i", "o", "n", ";", " ", "s", "e", "t", " ", "b">>,
  <<"u", "p", "v", "a", "r", " ", "0", " ", "c", " ", "a", ";", " ", "u", "n", "s", "e", "t", " ", "a", ";", " ", "s", "e", "t", " ", "c">>,
  <<"s", "e", "t", " ", "c", " ", "1", ";", " ", "u", "p", "v", "a", "r", " ", "0", " ", "c", " ", "a", ";", " ", "u", "n", "s", "e", "t", " ", "a", ";", " ", "s", "e", "t", " ", "c">>,
  <<"s", "e", "t", " ", "c", " ", "1", ";", " ", "s", "e", "t", " ", "b", " ", "2", ";", " ", "u", "p", "v", "a", "r", " ", "0", " ", "c", " ", "a", ";", " ", "u", "n", "s", "e", "t", " ", "c", ";", " ", "s", "e", "t", " ", "a">>,
  <<"u", "p", "v", "a", "r", " ", "0", " ", "c", " ", "a", ";", " ", "u", "n", "s", "e", "t", " ", "c">>,
  <<"p", "r", "o", "c", " ", "f", " ", "{", "}", " ", "{", "u", "p", "v", "a", "r", " ", "1", " ", "g", " ", "x", ";", " ", "u", "n", "s", "e", "t", " ", "x", ";", " ", "s", "e", "t", " ", "x", " ", "1", "}", ";", " ", "s", "e", "t", " ", "g", " ", "2", ";", " ", "f", ";", " ", "s", "e", "t", " ", "g">>,
  <<"p", "r", "o", "c", " ", "f", " ", "{", "}", " ", "{", "u", "p", "v", "a", "r", " ", "1", " ", "g", " ", "x", ";", " ", "u", "p", "l", "e", "v", "e", "l", " ", "1", " ", "u", "n", "s", "e", "t", " ", "g", "}", ";", " ", "s", "e", "t", " ", "g", " ", "2", ";", " ", "f">>,
  <<"u", "n", "s", "e", "t", " ", "n", "o", "p", "e">>,
  <<"u", "n", "s", "e", "t">>}

\* built-ins and procedures renamed, removed and defined again
RenameSources == {
  <<"r", "e", "n", "a", "m", "e", " ", "s", "e", "t", " ", "p", "u", "t", ";", " ", "p", "u", "t", " ", "a", " ", "1", ";", " ", "s", "e", "t", " ", "a", " ", "2">>,
  <<"p", "r", "o", "c", " ", "f", " ", "{", "x", "}", " ", "{", "s", "e", "t", " ", "x", "}", ";", " ", "r", "e", "n", "a", "m", "e", " ", "f", " ", "g", ";", " ", "g", " ", "1", ";", " ", "f", " ", "1">>,
  <<"p", "r", "o", "c", " ", "f", " ", "{", "}", " ", "{", "}", ";", " ", "r", "e", "n", "a", "m", "e", " ", "f", " ", "s", "e", "t">>,
  <<"r", "e", "n", "a", "m", "e", " ", "n", "o", "p", "e", " ", "g">>,
  <<"r", "e", "n", "a", "m", "e", " ", "s", "e", "t", " ", "{", "}", ";", " ", "s", "e", "t", " ", "a", " ", "1">>,
  <<"r", "e", "n", "a", "m", "e", " ", "n", "o", "p", "e", " ", "{", "}">>,
  <<"p", "r", "o", "c", " ", "{", "}", " ", "{", "}", " ", "{", "r", "e", "t", "u", "r", "n", " ", "1", "}", ";", " ", "r", "e", "n", "a", "m", "e", " ", "s", "e", "t", " ", "{", "}">>,
  <<"r", "e", "n", "a", "m", "e", " ", "s", "e", "t", " ", "s", "e", "t">>,
  <<"p", "r", "o", "c", " ", "s", "e", "t", " ", "{", "}", " ", "{", "}">>,
  <<"r", "e", "n", "a", "m", "e", " ", "s", "e", "t">>}

\* texts with newlines: those of picolTestLineNumber with set for the arithmetic, a
\* newline as the first byte, and newlines inside nested texts
LineSources == {
  <<"s", "e", "t", " ", "a", " ", "2">>,
  <<"s", "e", "t", " ", "a", " ", "2", "\n">>,
  <<"\n", "\n", "\n">>,
  <<"s", "e", "t", " ", "a", " ", "4", "\n", "s", "e", "t", " ", "b", " ", "3", "\n", "\n">>,
  <<"s", "e", "t", " ", "a", " ", "4", "\r", "\n", "s", "e", "t", " ", "b", " ", "3", "\r", "\n">>,
  <<"\n", "s", "e", "t", " ", "a", " ", "1">>,
  <<"s", "e", "t", " ", "a", " ", "{", "x", "\n", "y", "}", "\n", "f", "o", "o">>,
  <<"s", "e", "t", " ", "a", " ", "[", "s", "e", "t", " ", "b", " ", "1", "\n", "]", "\n", "s", "e", "t", " ", "c", " ", "2", "\n", "f", "o", "o">>,
  <<"c", "a", "t", "c", "h", " ", "{", "s", "e", "t", " ", "a", " ", "1", "\n", "f", "o", "o", "}", " ", "r", "\n", "f", "o", "o">>,
  <<"p", "r", "o", "c", " ", "f", " ", "{", "}", " ", "{", "s", "e", "t", " ", "a", " ", "1", "\n", "s", "e", "t", " ", "b", " ", "2", "\n", "}", "\n", "f", "\n", "f", "\n", "f", "o", "o">>}

\* a command substitution nested n deep
RECURSIVE Nest(_)
Nest(n) == IF n = 0 THEN <<"s", "e", "t", " ", "a", " ", "1">> ELSE <<"s", "e", "t", " ", "a", " ", "[">> \o Nest(n - 1) \o <<"]">>

\* substitutions nested as deep as the recursion limit, and one deeper
NestSources == {Nest(PICKLE_MAX_RECURSION), Nest(PICKLE_MAX_RECURSION + 1)}

Sources == SeparatorSources \cup StopSources \cup ArgvSources \cup ProcSources
           \cup WhileSources \cup CatchSources \cup UpVarSources \cup UnsetSources
           \cup RenameSources \cup LineSources \cup NestSources

(***************************************************************************)
(* Specifications.                                                         *)
(***************************************************************************)
Init ==
  /\ i = picolInitialize
  /\ stack = << >>
  /\ returning = FALSE
  /\ rv = PICKLE_OK
  /\ log = << >>
  /\ nevals = 0
  /\ nops = 0

Next ==
  \/ \E t \in Sources : pickle_eval(t)
  \/ EvalGetToken
  \/ EvalParserError
  \/ EvalEOF
  \/ EvalVAR
  \/ EvalCMD
  \/ EvalCMDReturn
  \/ EvalESC
  \/ EvalSEP
  \/ EvalSTR
  \/ EvalEOL
  \/ EvalCallReturn
  \/ CallSet
  \/ CallRetCodes
  \/ CallReturn
  \/ CallProc
  \/ CallConcat
  \/ CallUpVar
  \/ CallUnSet
  \/ CallRename
  \/ CallCatch
  \/ CatchReturn
  \/ CallWhile
  \/ WhileCond
  \/ WhileBody
  \/ CallCallProc
  \/ CallProcReturn
  \/ CallUpLevel
  \/ UpLevelReturn

Spec == Init /\ [][Next]_vars

NextResult ==
  \/ \E s \in ResultStrings, ok \in BOOLEAN : set_result_string(s, ok)
  \/ set_result_empty
  \/ set_result_oom
  \/ \E argv \in JoinArgvs, ok \in BOOLEAN : do_join(argv, ok)

SpecResult == Init /\ [][NextResult]_vars

NextTable ==
  \/ \E name \in TableNames, func \in HostFuncs : register_command(name, func)
  \/ \E name \in TableNames, def \in ProcDefs : add_proc(name, def)
  \/ \E src \in TableNames, dst \in TableNames : rename_command(src, dst)

SpecTable == Init /\ [][NextTable]_vars

NextVar ==
  \/ \E name \in VarNames, val \in VarValues : set_var_string(name, val)
  \/ \E name \in VarNames : get_var_string(name)
  \/ \E name \in VarNames : get_var_integer(name)
  \/ \E name \in VarNames, val \in VarValues : command_set(<<"set", name, val>>)
  \/ \E name \in VarNames : command_set(<<"set", name>>)

SpecVar == Init /\ [][NextVar]_vars

\* the steps the evaluation of a set command with three plain words takes
NextEscape ==
  \/ unescape
  \/ eval_word
  \/ EvalGetToken
  \/ EvalEOF
  \/ EvalESC
  \/ EvalSEP
  \/ EvalCallReturn
  \/ CallSet

NextReturn == \E argv \in ReturnArgvs : command_return(argv)

SpecReturn == Init /\ [][NextReturn]_vars

NextList ==
  \/ EscapeIdle /\ \E l \in ListStrings : command_llength(<<<<"l", "l", "e", "n", "g", "t", "h">>, l>>)
  \/ EscapeIdle /\ \E l \in ListStrings, n \in ListIndices : command_lindex(<<<<"l", "i", "n", "d", "e", "x">>, l, n>>)

SpecList == Init /\ [][NextList]_vars

NextJoin == EscapeIdle /\ \E list \in JoinInputs, join \in JoinStrings : command_join(list, join)

SpecJoin == Init /\ [][NextJoin]_vars

\* the evaluation of a text in which an allocation of picolEval may fail
NextOom ==
  \/ EscapeIdle /\ \E t \in OomSources : pickle_eval(t)
  \/ EvalGetToken
  \/ EvalEOF
  \/ EvalVAR
  \/ EvalCMD
  \/ EvalCMDReturn
  \/ EvalESC
  \/ EvalSEP
  \/ EvalSTR
  \/ EvalEOL
  \/ EvalCallReturn
  \/ CallSet
  \/ EvalOomToken
  \/ EvalOomValue
  \/ EvalOomResult
  \/ EvalOomArgv
  \/ EvalOomWord

SpecOom == Init /\ [][NextOom]_vars

NextConcat ==
  \/ EscapeIdle /\ \E join \in ConcatJoins, argv \in ConcatArgvs(MaxConcatWords) :
                     call_concatenate(join, argv)
  \/ EscapeIdle /\ \E argv \in ConcatArgvs(MaxConcatWords) : command_concat(<<<<"c", "o", "n", "c", "a", "t">>>> \o argv)

SpecConcat == Init /\ [][NextConcat]_vars

SpecEscape == Init /\ [][NextEscape]_vars

\* the steps the evaluation of a set command with a brace group takes
NextBrace ==
  \/ eval_brace
  \/ EvalGetToken
  \/ EvalEOF
  \/ EvalVAR
  \/ EvalCMD
  \/ EvalCMDReturn
  \/ EvalESC
  \/ EvalSEP
  \/ EvalSTR
  \/ EvalEOL
  \/ EvalCallReturn
  \/ CallSet

SpecBrace == Init /\ [][NextBrace]_vars

NextWords ==
  \/ eval_words
  \/ EvalGetToken
  \/ EvalEOF
  \/ EvalVAR
  \/ EvalCMD
  \/ EvalCMDReturn
  \/ EvalESC
  \/ EvalSEP
  \/ EvalSTR
  \/ EvalEOL
  \/ EvalCallReturn
  \/ CallSet
  \/ CallConcat

SpecWords == Init /\ [][NextWords]_vars


NextLine ==
  \/ eval_source
  \/ eval_source_again
  \/ EvalGetToken
  \/ EvalEOF
  \/ EvalCMD
  \/ EvalCMDReturn
  \/ EvalESC
  \/ EvalSEP
  \/ EvalSTR
  \/ EvalEOL
  \/ EvalCallReturn
  \/ CallSet
  \/ CallProc
  \/ CallWhile
  \/ WhileCond
  \/ WhileBody
  \/ CallCallProc
  \/ CallProcReturn

SpecLine == Init /\ [][NextLine]_vars

NextRange ==
  EscapeIdle /\ \E str \in RangeStrings, first \in RangeIndexes, last \in RangeIndexes :
                  command_string_range(str, first, last)

SpecRange == Init /\ [][NextRange]_vars

NextPow == EscapeIdle /\ \E a \in PowBases, b \in PowExps : command_pow(a, b)

SpecPow == Init /\ [][NextPow]_vars

NextCalls ==
  \/ eval_calls
  \/ EvalGetToken
  \/ EvalParserError
  \/ EvalEOF
  \/ EvalVAR
  \/ EvalCMD
  \/ EvalCMDReturn
  \/ EvalESC
  \/ EvalSEP
  \/ EvalSTR
  \/ EvalEOL
  \/ EvalCallReturn
  \/ CallSet
  \/ CallReturn
  \/ CallProc
  \/ CallUpVar
  \/ CallRename
  \/ CallCallProc
  \/ CallProcReturn
  \/ CallUpLevel
  \/ UpLevelReturn

SpecCalls == Init /\ [][NextCalls]_vars

NextBracket ==
  \/ EscapeIdle /\ \E text \in BracketTexts : lex_start(text)
  \/ lex_token

SpecBracket == Init /\ [][NextBracket]_vars
NextLex ==
  \/ EscapeIdle /\ \E text \in LexTextsOf(MaxLexLen) : lex_start(text)
  \/ lex_token

SpecLex == Init /\ [][NextLex]_vars

(***************************************************************************)
(* Properties.                                                             *)
(***************************************************************************)
\* the value a name of the current frame reads as, NoString if there is no such variable
VarValue(ii, name) ==
  IF picolGetVar(ii, name, TRUE) = 0 THEN NoString
  ELSE picolGetVarVal(ii, picolGetVar(ii, name, TRUE))

\* the top-level evaluation has returned code to the host
Finished(code) == stack = << >> /\ nevals > 0 /\ returning /\ rv = code

\* picolEval(text) has just been entered from the activation on top of the stack
EvalStarted(text) ==
  /\ ~returning'
  /\ Len(stack') > Len(stack)
  /\ stack'[Len(stack')].kind = "eval"
  /\ stack'[Len(stack')].pc = "tok"
  /\ stack'[Len(stack')].p.text = text

\* the activation on top of the stack returns code to its caller
Returns(code) == stack' = Pop /\ returning' /\ rv' = code

\* C1: when a command dispatched by picolEval returns a code other than OK, picolEval
\* dispatches no later command of its text, returns exactly that code, and leaves the
\* result as the command left it
C1_NonOkStopsEvaluation ==
  [][(Returned("eval", "call") /\ rv # PICKLE_OK)
       => /\ Returns(rv)
          /\ log' = log
          /\ ResultString(i') = ResultString(i)]_vars

\* `set a 1; break; set a 2` has returned BREAK to the host after two dispatches, a is 1
C1_Witness ==
  /\ Finished(PICKLE_BREAK)
  /\ log = <<<<<<"s", "e", "t">>, <<"a">>, <<"1">>>>, <<<<"b", "r", "e", "a", "k">>>>>>
  /\ VarValue(i, <<"a">>) = <<"1">>

\* C2: a token of inline white space (PT_SEP) never holds a newline: the newline is left
\* to end the command, whatever spaces or tabs precede it
C2_SepNeverTakesNewline ==
  \A k \in 1..Len(stack) :
    (stack[k].kind = "eval" /\ stack[k].pc = "sw" /\ stack[k].p.type = "PT_SEP")
      => \A j \in 1..Len(TokenText(stack[k].p)) : TokenText(stack[k].p)[j] # "\n"

\* C3: after any sequence of result-setting operations every heap block that was the
\* result has been freed exactly once, and a heap block that is the result has not been freed
C3_HeapResultFreedOnce ==
  \A b \in 1..Len(i.blocks) :
    i.blocks[b].frees = IF ~i.static_result /\ i.result = b THEN 0 ELSE 1

\* the argv blocks held by the activations of picolEval on the stack
RECURSIVE ArgvHeld(_)
ArgvHeld(st) == IF st = << >> THEN 0 ELSE ArgvBlocks(Head(st).argv) + ArgvHeld(Tail(st))

\* C4: when an evaluation returns, with any code, every argv array and argv word it
\* allocated has been freed: the live argv blocks are those of the evaluations still running
C4_ArgvFreedOnReturn == i.argvLive = ArgvHeld(stack)

\* the call frames that are allocated and not freed
LiveFrames(ii) == {f \in 1..Len(ii.frames) : ii.frames[f].live}

C6_ReturnBecomesOk ==
  [][Returned("callproc", "body")
       => /\ Returns(IF rv = PICKLE_RETURN THEN PICKLE_OK ELSE rv)
          /\ ResultString(i') = ResultString(i)]_vars

\* the call of f with body `return 5` has returned OK to picolEval with result 5
C6_Witness ==
  /\ Returned("eval", "call")
  /\ Top.argv = <<<<"f">>>>
  /\ log[Len(log)] = <<<<"r", "e", "t", "u", "r", "n">>, <<"5">>>>
  /\ rv = PICKLE_OK
  /\ ResultString(i) = <<"5">>

\* the integer the result converts to, as picolCommandWhile reads its condition
Condition == ConvertBaseN(ResultString(i), 10)

\* C7: while evaluates cond before every iteration and body only after cond yielded a
\* non-zero integer; body codes OK and CONTINUE start the next iteration, BREAK ends the
\* loop with OK, any other body code ends it with that code, and cond yielding 0 ends it
\* with OK
C7_WhileLoop ==
  /\ [][(AtCommand("picolCommandWhile") /\ Len(Top.argv) = 3) => EvalStarted(Top.argv[2])]_vars
  /\ [][(Returned("while", "cond") /\ rv = PICKLE_OK /\ Condition.ok)
          => IF Condition.out # 0 THEN EvalStarted(CallerArgv[3])
             ELSE Returns(PICKLE_OK)]_vars
  /\ [][Returned("while", "body")
          => IF rv = PICKLE_OK \/ rv = PICKLE_CONTINUE THEN EvalStarted(CallerArgv[2])
             ELSE IF rv = PICKLE_BREAK THEN Returns(PICKLE_OK)
             ELSE Returns(rv)]_vars
  /\ [][(stack # << >> /\ Top.kind = "while" /\ Len(stack') > Len(stack)
           /\ stack'[Len(stack)].pc = "body")
          => (Returned("while", "cond") /\ rv = PICKLE_OK /\ Condition.ok /\ Condition.out # 0)]_vars

\* `set c 1; while {set c} {set c 0; continue; set c 1}; set c` has returned OK to the
\* host: the body ran once and ended with CONTINUE, then cond yielded 0
C7_Witness ==
  /\ Finished(PICKLE_OK)
  /\ Len(log) = 7
  /\ log[2][1] = <<"w", "h", "i", "l", "e">>
  /\ log[5] = <<<<"c", "o", "n", "t", "i", "n", "u", "e">>>>
  /\ log[7] = <<<<"s", "e", "t">>, <<"c">>>>
  /\ ResultString(i) = <<"0">>

\* the decimal text of a return code
CodeText(code) ==
  CASE code = -1 -> <<"-", "1">>
    [] code = 0 -> <<"0">>
    [] code = 1 -> <<"1">>
    [] code = 2 -> <<"2">>
    [] code = 3 -> <<"3">>
    [] code = 7 -> <<"7">>

CatchFooFailed ==
  /\ Returned("catch", "script")
  /\ CallerArgv = <<<<"c", "a", "t", "c", "h">>, <<"f", "o", "o">>, <<"r">>>>
  /\ rv = PICKLE_ERROR

\* C9, as the specification states it: after `catch {foo} r` with foo undefined, r holds
\* the ERROR code, catch returns OK, and the result is the error code written as a string
C9_ResultIsCode ==
  [][CatchFooFailed
       => /\ Returns(PICKLE_OK)
          /\ VarValue(i', <<"r">>) = <<"-", "1">>
          /\ ResultString(i') = <<"-", "1">>]_vars

\* C9, as the code has it: after `catch {foo} r` with foo undefined, r holds the ERROR
\* code, catch returns OK, and the result is the message the failed evaluation left
C9_ResultIsMessage ==
  [][CatchFooFailed
       => /\ Returns(PICKLE_OK)
          /\ VarValue(i', <<"r">>) = <<"-", "1">>
          /\ ResultString(i') = ResultString(i)
          /\ ResultString(i') = LinePrefix(i) \o <<"N", "o", " ", "s", "u", "c", "h", " ", "c", "o", "m", "m", "a", "n", "d", " ", "'", "f", "o", "o", "'">>]_vars

\* `catch {foo} r` has returned OK to picolEval, r is -1 and the result is the message
C9_Witness ==
  /\ Returned("eval", "call")
  /\ Top.argv = <<<<"c", "a", "t", "c", "h">>, <<"f", "o", "o">>, <<"r">>>>
  /\ rv = PICKLE_OK
  /\ VarValue(i, <<"r">>) = <<"-", "1">>
  /\ ResultString(i) = LinePrefix(i) \o <<"N", "o", " ", "s", "u", "c", "h", " ", "c", "o", "m", "m", "a", "n", "d", " ", "'", "f", "o", "o", "'">>

\* the variables of the current frame other than the one called name
OtherVars(ii, name) ==
  {ii.frames[ii.callframe].vars[k] : k \in 1..Len(ii.frames[ii.callframe].vars)}
    \ {FindVar(ii, name)}

\* C10: after `upvar level other mine` returned OK, mine reads and writes the variable
\* other of the target frame, and no other variable of the current frame has changed or
\* become a link, whatever the current frame held before
C10_UpVarLinksMine ==
  [][(AtCommand("picolCommandUpVar") /\ Len(Top.argv) = 4 /\ rv' = PICKLE_OK)
       => /\ picolGetVar(i', Top.argv[4], TRUE)
               = picolGetVar([i' EXCEPT !.callframe = picolSetLevel(i, Top.argv[2]).i.callframe],
                             Top.argv[3], TRUE)
          /\ \A c \in OtherVars(i, Top.argv[4]) : i'.cells[c] = i.cells[c]]_vars

\* the links of the interpreter: the cells of type PV_LINK with their targets
Links(ii) == {<<c, ii.cells[c].link>> : c \in {k \in 1..Len(ii.cells) : ii.cells[k].type = "PV_LINK"}}

\* the interpreter after picolCommandUpVar has set mine to the empty string
UpVarMineSet == pickle_set_var_string(i, Top.argv[4], << >>).i

\* `upvar level other mine` is dispatched and other, resolved in the target frame, is
\* the variable mine of the current frame itself
SelfUpVar ==
  /\ AtCommand("picolCommandUpVar")
  /\ Len(Top.argv) = 4
  /\ picolSetLevel(UpVarMineSet, Top.argv[2]).rc = PICKLE_OK
  /\ picolGetVar(picolSetLevel(UpVarMineSet, Top.argv[2]).i, Top.argv[3], TRUE)
       = FindVar(UpVarMineSet, Top.argv[4])

\* C11: an upvar whose resolved target is the local variable itself, such as
\* `upvar 0 x x`, returns ERROR and creates no link
C11_SelfUpVarRejected ==
  [][SelfUpVar => (rv' = PICKLE_ERROR /\ Links(i') = Links(i))]_vars

\* the cell reached from v after following at most fuel links, freed cells included
RECURSIVE LinkEnd(_, _, _)
LinkEnd(ii, v, fuel) ==
  IF ii.cells[v].live /\ ii.cells[v].type = "PV_LINK" /\ fuel > 0
  THEN LinkEnd(ii, ii.cells[v].link, fuel - 1)
  ELSE v

\* C12: following the links of any variable of any live frame ends, after finitely many
\* steps, at a variable that holds a value: no cycle, and no link into freed memory
C12_LinksEndAtValue ==
  \A f \in LiveFrames(i) : \A k \in 1..Len(i.frames[f].vars) :
    LET e == LinkEnd(i, i.frames[f].vars[k], Len(i.cells))
    IN i.cells[e].live /\ i.cells[e].type # "PV_LINK"

\* what a record dispatches to: the function with its private data, for a procedure
\* the parameter list and the body
Behaviour(rec) ==
  [name |-> rec.name, func |-> rec.func,
   privdata |-> IF rec.func = "picolCommandCallProc"
                THEN <<rec.privdata[1], rec.privdata[2]>> ELSE rec.privdata]

\* the records of the command table
Records(ii) == {Behaviour(ii.table[k]) : k \in 1..Len(ii.table)}

\* the name is defined as a command
Defined(ii, name) == picolGetCommand(ii, name) # 0

\* C13: the command table never holds two records of one name, and registering a
\* function or defining a procedure under a name that is defined returns ERROR and
\* leaves the table, with the record of that name, as it was
C13_OneRecordPerName ==
  /\ [](\A j \in 1..Len(i.table) : \A k \in 1..Len(i.table) :
          i.table[j].name = i.table[k].name => j = k)
  /\ [][\A name \in TableNames : \A func \in HostFuncs :
          (Defined(i, name) /\ register_command(name, func))
            => (rv' = PICKLE_ERROR /\ i'.table = i.table)]_vars
  /\ [][\A name \in TableNames : \A def \in ProcDefs :
          (Defined(i, name) /\ add_proc(name, def))
            => (rv' = PICKLE_ERROR /\ i'.table = i.table)]_vars

\* a was registered, and registering it again was refused: one record a, ERROR returned
C13_Witness ==
  /\ nops = 2
  /\ rv = PICKLE_ERROR
  /\ ResultString(i) = <<"'", "a", "'", " ", "a", "l", "r", "e", "a", "d", "y", " ", "d", "e", "f", "i", "n", "e", "d">>
  /\ Cardinality({k \in 1..Len(i.table) : i.table[k].name = <<"a">>}) = 1
  /\ i.table[picolGetCommand(i, <<"a">>)].func = "hostF"

\* the record of src under the name dst
Renamed(ii, src, dst) == [Behaviour(ii.table[picolGetCommand(ii, src)]) EXCEPT !.name = dst]

\* C14: rename src dst with src defined and dst neither defined nor empty replaces the
\* record of src by one called dst with the same function and private data (parameter
\* list and body); with dst empty it only removes src; with dst defined or src
\* undefined it returns ERROR and the defined commands are unchanged
C14_Rename ==
  [][\A src \in TableNames : \A dst \in TableNames :
       rename_command(src, dst)
         => IF Defined(i, dst) \/ ~Defined(i, src)
            THEN rv' = PICKLE_ERROR /\ Records(i') = Records(i)
            ELSE IF dst = << >>
            THEN rv' = PICKLE_OK /\ Records(i') = Records(i) \ {Renamed(i, src, src)}
            ELSE /\ rv' = PICKLE_OK
                 /\ Records(i') = (Records(i) \ {Renamed(i, src, src)}) \cup {Renamed(i, src, dst)}
                 /\ ~Defined(i', src)]_vars

\* the procedure a was renamed to b: b has its parameter list and body, a is undefined
C14_Witness ==
  /\ nops = 2
  /\ rv = PICKLE_OK
  /\ ~Defined(i, <<"a">>)
  /\ Defined(i, <<"b">>)
  /\ i.table[picolGetCommand(i, <<"b">>)].func = "picolCommandCallProc"
  /\ Behaviour(i.table[picolGetCommand(i, <<"b">>)]).privdata = <<<<"x">>, <<"s", "e", "t", " ", "x">>>>

\* the number of newline bytes among the first n bytes of text
Newlines(text, n) == Cardinality({k \in 1..n : text[k] = "\n"})

\* C17: during a top-level evaluation the line counter starts at 1 and never
\* decreases, and as long as no nested text has been evaluated it is 1 plus the number
\* of newline bytes of the source the lexer has advanced over
C17_LineCountsNewlines ==
  /\ [][nevals' # nevals => i'.line = 1]_vars
  /\ [][nevals' = nevals => i'.line >= i.line]_vars
  /\ []((stack # << >> /\ i.heaporder = 0)
          => i.line = 1 + Newlines(stack[1].p.text, stack[1].p.p - 1))

\* C15: the level counter never exceeds the maximum recursion depth: a procedure call
\* dispatched when that many calls are active returns ERROR, pushes no frame and does
\* not evaluate its body
C15_LevelWithinLimit ==
  /\ [](i.level <= PICKLE_MAX_RECURSION)
  /\ [][(AtCommand("picolCommandCallProc") /\ i.level >= PICKLE_MAX_RECURSION)
          => /\ returning' /\ rv' = PICKLE_ERROR
             /\ i'.frames = i.frames
             /\ i'.level = i.level]_vars

\* the activations of picolEval on the stack that evaluate a command substitution
\* of the activation below them
NestedEvals ==
  Cardinality({k \in 2..Len(stack) : stack[k].kind = "eval" /\ stack[k - 1].kind = "eval"})

\* the source nested one deeper than the limit returns ERROR
DeepNestFails ==
  [][(Len(stack) = 1 /\ stack' = << >> /\ Top.p.text = Nest(PICKLE_MAX_RECURSION + 1))
      => rv' = PICKLE_ERROR]_vars

\* C16: nested evaluation is bounded by the recursion limit: no more than
\* PICKLE_MAX_RECURSION evaluations are ever nested, and the source whose command
\* substitutions are nested one deeper than the limit returns ERROR
C16_NestingWithinLimit ==
  /\ [](NestedEvals <= PICKLE_MAX_RECURSION)
  /\ DeepNestFails

\* the last call of the variable API
LastOp == log[1]

VarCalled(op) == nevals = 0 /\ log # << >> /\ LastOp.op = op

\* the variable called name exists, and the string it holds
Exists(name) == pickle_get_var_string(i, name).rc = PICKLE_OK

Stored(name) == pickle_get_var_string(i, name).val

Digits(s) == Len(s) >= 1 /\ \A k \in 1..Len(s) : s[k] \in DigitChars

\* one optional sign, then one or more decimal digits up to the end of the string
StrictDecimal(s) == IF Len(s) > 0 /\ s[1] \in {"+", "-"} THEN Digits(Tail(s)) ELSE Digits(s)

DigitValue(c) == CHOOSE d \in 0..9 : ToString(d) = c

RECURSIVE Magnitude(_)
Magnitude(s) ==
  IF Len(s) = 0 THEN 0 ELSE 10 * Magnitude(SubSeq(s, 1, Len(s) - 1)) + DigitValue(s[Len(s)])

\* the integer a strict decimal string denotes
Denoted(s) ==
  IF s[1] = "-" THEN 0 - Magnitude(Tail(s)) ELSE IF s[1] = "+" THEN Magnitude(Tail(s)) ELSE Magnitude(s)

\* C18: the conversion of a strict decimal string returns OK with the integer it
\* denotes; that of any other string returns ERROR, stores 0 and makes a NaN message
\* the result
C18_StrictDecimalConversion ==
  \A name \in VarNames :
    (VarCalled("pickle_get_var_integer") /\ LastOp.name = name /\ Exists(name))
      => IF StrictDecimal(Stored(name))
         THEN rv = PICKLE_OK /\ LastOp.out = Denoted(Stored(name))
         ELSE /\ rv = PICKLE_ERROR
              /\ LastOp.out = 0
              /\ ResultString(i) = <<"N", "a", "N", ":", " ", "\"">> \o Stored(name) \o <<"\"">>

\* what a call that sets a variable leaves, and what a call that reads one hands back
SetGetRoundTrip ==
  /\ (VarCalled("pickle_set_var_string") \/ (VarCalled("picolCommandSet") /\ rv = PICKLE_OK))
       => Exists(LastOp.name) /\ Stored(LastOp.name) = LastOp.out
  /\ (VarCalled("pickle_set_var_string") \/ VarCalled("pickle_get_var_string"))
       => (rv = PICKLE_OK <=> Exists(LastOp.name))
  /\ (VarCalled("pickle_get_var_string") /\ rv = PICKLE_OK) => LastOp.out = Stored(LastOp.name)

\* pickle_get_var_integer on an existing variable: OK with the value if and only if
\* the string is a strict integer, and otherwise ERROR with 0
GetIntegerStrict ==
  (VarCalled("pickle_get_var_integer") /\ Exists(LastOp.name))
    => /\ rv = PICKLE_OK <=> StrictDecimal(Stored(LastOp.name))
       /\ rv = PICKLE_OK => LastOp.out = Denoted(Stored(LastOp.name))
       /\ rv # PICKLE_OK => rv = PICKLE_ERROR /\ LastOp.out = 0

\* a call that reads a variable leaves every variable as it was
ReadKeepsVariables ==
  [][(VarCalled("pickle_get_var_integer")' \/ VarCalled("pickle_get_var_string")')
      => \A name \in VarNames :
           /\ Exists(name)' <=> Exists(name)
           /\ Exists(name) => Stored(name)' = Stored(name)]_vars

\* C19: a variable set to a string holds exactly that string and a read of it hands
\* exactly that string back; pickle_get_var_integer returns OK with the value if and
\* only if the string is a strict integer, otherwise ERROR with 0, and the variable
\* keeps the string
C19_SetGetVar == []SetGetRoundTrip /\ []GetIntegerStrict /\ ReadKeepsVariables

SimpleEscapes == <<"\\", "n", "t", "r", "\"", "[", "]", "e">>

SimpleBytes == <<"\\", "\n", "\t", "\r", "\"", "[", "]", Chr(27)>>

HexDigits == <<"0", "1", "2", "3", "4", "5", "6", "7", "8", "9", "a", "b", "c", "d", "e", "f">>

HexUpper == <<"0", "1", "2", "3", "4", "5", "6", "7", "8", "9", "A", "B", "C", "D", "E", "F">>

IsHex(c) == \E v \in 1..16 : c = HexDigits[v] \/ c = HexUpper[v]

HexValue(c) == (CHOOSE v \in 1..16 : c = HexDigits[v] \/ c = HexUpper[v]) - 1

IsSimple(c) == \E k \in 1..Len(SimpleEscapes) : c = SimpleEscapes[k]

SimpleByte(c) == SimpleBytes[CHOOSE k \in 1..Len(SimpleEscapes) : c = SimpleEscapes[k]]

\* the byte b in front of what the rest decodes to
Before(b, d) == [ok |-> d.ok, s |-> IF d.ok THEN <<b>> \o d.s ELSE << >>]

From(s, k) == SubSeq(s, k, Len(s))

\* what a text decodes to: each recognised escape is one byte, every other byte is
\* itself, and a backslash with anything else behind it makes the text invalid
RECURSIVE Decoded(_)
Decoded(s) ==
  IF Len(s) = 0 THEN [ok |-> TRUE, s |-> << >>]
  ELSE IF s[1] # "\\" THEN Before(s[1], Decoded(Tail(s)))
  ELSE IF Len(s) >= 2 /\ IsSimple(s[2]) THEN Before(SimpleByte(s[2]), Decoded(From(s, 3)))
  ELSE IF Len(s) >= 4 /\ s[2] = "x" /\ IsHex(s[3]) /\ IsHex(s[4])
       THEN Before(Chr((16 * HexValue(s[3])) + HexValue(s[4])), Decoded(From(s, 5)))
  ELSE IF Len(s) >= 3 /\ s[2] = "x" /\ IsHex(s[3])
       THEN Before(Chr(HexValue(s[3])), Decoded(From(s, 4)))
  ELSE [ok |-> FALSE, s |-> << >>]

\* picolUnEscape returns the length of the decoded text and leaves it in the buffer,
\* or returns a negative number
UnEscapeDecodes ==
  VarCalled("picolUnEscape")
    => IF Decoded(LastOp.name).ok
       THEN /\ rv = Len(Decoded(LastOp.name).s)
            /\ rv <= Len(LastOp.name)
            /\ LastOp.out = CStr(Decoded(LastOp.name).s)
       ELSE rv < 0

\* picolEval on a word: the decoded text joins the arguments, or picolEval returns ERROR
EvalDecodes ==
  [][(Running /\ Top.p.type = "PT_ESC")
      => IF Decoded(TokStr).ok
         THEN /\ Len(stack') = Len(stack)
              /\ \E t \in {CStr(Decoded(TokStr).s)} :
                   stack'[Len(stack)].argv \in {Append(Top.argv, t),
                                                [k \in DOMAIN Top.argv |-> IF k = Len(Top.argv) THEN Top.argv[k] \o t ELSE Top.argv[k]]}
         ELSE returning' /\ rv' = PICKLE_ERROR /\ Len(stack') = Len(stack) - 1]_vars

\* C20: escape decoding replaces each recognised escape with one byte, copies every
\* other byte and returns the decoded length, never more than the length of the text;
\* a backslash followed by any other byte or by the end of the text, and an x with no
\* hex digit behind it, give a negative return, and the evaluator returns ERROR
C20_EscapeDecoding == []UnEscapeDecodes /\ EvalDecodes

\* \x30\n decodes to the two bytes 0 and newline
C20_Witness ==
  /\ VarCalled("picolUnEscape")
  /\ LastOp.name = <<"\\", "x", "3", "0", "\\", "n">>
  /\ rv = 2
  /\ LastOp.out = <<"0", "\n">>

\* the number of names of a parameter list: its maximal runs of bytes other than a space
NameCount(alist) ==
  Cardinality({k \in 1..Len(alist) : alist[k] # " " /\ (k = 1 \/ alist[k - 1] = " ")})

\* a procedure is about to be called with a number of arguments other than its names
WrongArity ==
  /\ AtCommand("picolCommandCallProc")
  /\ i.level <= PICKLE_MAX_RECURSION
  /\ NameCount(i.table[picolGetCommand(i, Top.argv[1])].privdata[1]) # Len(Top.argv) - 1

BraceText == stack[1].p.text
Open == Len(SetBrace)

\* the number of backslashes that stand directly in front of byte k of the group
BackslashRun(t, k) ==
  Cardinality({j \in (Open + 1)..(k - 1) : \A m \in j..(k - 1) : t[m] = "\\"})

\* byte k is the brace c and no backslash keeps it from being counted
IsBrace(t, k, c) == t[k] = c /\ BackslashRun(t, k) % 2 = 0

\* the braces that are open in front of byte k, the opening brace not counted
Depth(t, k) ==
  Cardinality({j \in (Open + 1)..(k - 1) : IsBrace(t, j, "{")})
    - Cardinality({j \in (Open + 1)..(k - 1) : IsBrace(t, j, "}")})

\* byte k is a closing brace that balances the opening brace
Closes(t, k) == IsBrace(t, k, "}") /\ Depth(t, k) = 0

HasMatch(t) == \E k \in (Open + 1)..Len(t) : Closes(t, k)
Match(t) == CHOOSE k \in (Open + 1)..Len(t) :
              Closes(t, k) /\ \A j \in (Open + 1)..(k - 1) : ~Closes(t, j)
Content(t) == SubSeq(t, Open + 1, Match(t) - 1)

\* the word ends with the closing brace
WordEnds(t) == Match(t) = Len(t) \/ t[Match(t) + 1] \in {" ", ";"}

\* the token the lexer makes of a brace group is the bytes between the braces
BraceToken ==
  (/\ Len(stack) = 1 /\ Running /\ Top.p.type = "PT_STR" /\ Top.p.start = Open + 1
   /\ HasMatch(BraceText))
    => TokStr = Content(BraceText)

\* the third word of the command starts with the bytes between the braces, and is
\* those bytes when the word ends with the closing brace
BraceWord ==
  (stack # << >> /\ log # << >> /\ HasMatch(BraceText))
    => /\ Len(log[1]) >= 3
       /\ SubSeq(log[1][3], 1, Len(Content(BraceText))) = Content(BraceText)
       /\ WordEnds(BraceText) => log[1][3] = Content(BraceText)

\* the command of a text whose word is a closed brace group is called
BraceCalled ==
  [][(/\ Len(stack) = 1 /\ Running /\ Top.p.type \in {"PT_EOL", "PT_EOF"} /\ log = << >>
      /\ HasMatch(BraceText) /\ WordEnds(BraceText) /\ Top.prevtype # "PT_EOL")
       => /\ Len(log') = 1 /\ Len(log'[1]) >= 3
          /\ SubSeq(log'[1], 1, 3) = <<<<"s", "e", "t">>, <<"a">>, Content(BraceText)>>]_vars

\* C22: a brace group at the start of a word reaches the command as exactly the bytes
\* between the opening brace and its matching closing brace, where nested braces
\* balance and a backslash keeps the byte behind it from being counted; no variable
\* or command is substituted and no escape is decoded
C22_BraceGroupVerbatim == [](BraceToken /\ BraceWord) /\ BraceCalled

\* set was called with the group {\}$a} as its third word
C22_Witness ==
  /\ stack # << >>
  /\ BraceText = SetBrace \o <<"\\", "}", "$", "a", "}">>
  /\ log = <<<<<<"s", "e", "t">>, <<"a">>, <<"\\", "}", "$", "a">>>>>>

\* return was called with argc words
ReturnCalled(argc) == VarCalled("picolCommandReturn") /\ Len(LastOp.name) = argc

\* what return gives for a code word shorter than limit
ReturnCodes(limit) ==
  /\ ReturnCalled(1) => (rv = PICKLE_RETURN /\ LastOp.out = << >>)
  /\ ReturnCalled(2) => (rv = PICKLE_RETURN /\ LastOp.out = LastOp.name[2])
  /\ (ReturnCalled(3) /\ Len(LastOp.name[3]) < limit)
       => IF StrictDecimal(LastOp.name[3])
          THEN rv = Denoted(LastOp.name[3]) /\ LastOp.out = LastOp.name[2]
          ELSE rv = PICKLE_ERROR

\* the claim holds for every code word shorter than 64 bytes
ReturnCodesShort == ReturnCodes(64)

\* C23: return gives PICKLE_RETURN with an empty result, return value gives
\* PICKLE_RETURN with value, return value code gives the integer code with value when
\* code is a strict integer and PICKLE_ERROR when it is not
C23_ReturnCodes == ReturnCodes(MaxText)

\* the tokens of a list that are elements, in order, up to PT_EOF or a parser error
RECURSIVE ElementTokens(_)
ElementTokens(q) ==
  LET g == picolGetToken(q)
  IN IF g.rc # PICKLE_OK \/ g.p.type = "PT_EOF" THEN << >>
     ELSE IF g.p.type \in {"PT_STR", "PT_ESC", "PT_VAR", "PT_CMD"}
          THEN <<TokenText(g.p)>> \o ElementTokens(g.p)
          ELSE ElementTokens(g.p)

Elements(list) == ElementTokens(picolParserInitialize(list, 0))

\* the lexer reaches the end of the list
RECURSIVE LexesFrom(_)
LexesFrom(q) ==
  LET g == picolGetToken(q)
  IN g.rc = PICKLE_OK /\ (g.p.type = "PT_EOF" \/ LexesFrom(g.p))

Lexes(list) == LexesFrom(picolParserInitialize(list, 0))

ListCalled(op) == VarCalled(op) /\ Lexes(LastOp.name[2])

\* lindex list n is element n of the list, and empty when there is no such element
LIndexAddresses ==
  (ListCalled("picolCommandLIndex") /\ StrictDecimal(LastOp.name[3]))
    => /\ rv = PICKLE_OK
       /\ LastOp.out = IF Denoted(LastOp.name[3]) \in 0..(Len(Elements(LastOp.name[2])) - 1)
                       THEN Elements(LastOp.name[2])[Denoted(LastOp.name[3]) + 1]
                       ELSE << >>

\* llength list is the number of elements of the list
LLengthCounts ==
  ListCalled("picolCommandLLength")
    => /\ rv = PICKLE_OK
       /\ LastOp.out = picolLongToString(Len(Elements(LastOp.name[2])), 10)

\* llength counts the elements of a list that holds no newline and no semicolon
LLengthCountsInline ==
  (log # << >> /\ \A k \in 1..Len(LastOp.name[2]) : LastOp.name[2][k] \notin {"\n", ";"}) => LLengthCounts

\* C24: llength list is the number of STR, ESC, VAR and CMD tokens of the list, which
\* is the number of indices at which lindex finds an element, whether the elements
\* are separated by spaces, tabs, newlines or semicolons
C24_LLengthCountsElements == LLengthCounts /\ LIndexAddresses

\* the words of argv with join between them, one byte at a time: byte k of the string
\* lies in word number n or in the join string behind it
RECURSIVE JoinedByte(_, _, _)
JoinedByte(join, argv, k) ==
  IF k <= Len(argv[1]) THEN argv[1][k]
  ELSE IF k <= Len(argv[1]) + Len(join) THEN join[k - Len(argv[1])]
  ELSE JoinedByte(join, Tail(argv), k - Len(argv[1]) - Len(join))

JoinedLen(join, argv) == IF argv = << >> THEN 0 ELSE ConcatNeeded(join, argv) - Len(join)

Joined(join, argv) == [k \in 1..JoinedLen(join, argv) |-> JoinedByte(join, argv, k)]

JoinCalled ==
  VarCalled("picolCommandJoin") /\ Len(Elements(LastOp.name[2])) <= PICKLE_MAX_ARGS

\* join of a list whose tokens all fit the small buffer, when the joined string is
\* shorter than the small buffer or the join string is not empty
JoinShort ==
  (/\ JoinCalled
   /\ \A k \in 1..Len(Elements(LastOp.name[2])) :
        Len(Elements(LastOp.name[2])[k]) < SMALL_RESULT_BUF_SZ
   /\ ~ConcatOverflows(LastOp.name[3], Elements(LastOp.name[2])))
    => /\ rv = PICKLE_OK
       /\ LastOp.out.result = Joined(LastOp.name[3], Elements(LastOp.name[2]))
       /\ LastOp.out.badfree = 0

\* C25: join list sep returns PICKLE_OK with the elements of the list, in order, with
\* sep between consecutive elements, for every list of at most PICKLE_MAX_ARGS
\* elements and for elements shorter and longer than the small buffer
C25_JoinList ==
  JoinCalled
    => /\ rv = PICKLE_OK
       /\ LastOp.out.result = Joined(LastOp.name[3], Elements(LastOp.name[2]))

\* what reading the variable in cell c gives: the value at the end of its links, or
\* nothing defined when the links lead into freed memory
Reads(ii, c) ==
  LET e == LinkEnd(ii, c, Len(ii.cells))
  IN IF ii.cells[e].live /\ ii.cells[e].type # "PV_LINK"
     THEN [defined |-> TRUE, val |-> ii.cells[e].val]
     ELSE [defined |-> FALSE, val |-> << >>]

FrameVars(ii, f) == {ii.frames[f].vars[k] : k \in 1..Len(ii.frames[f].vars)}

\* unset is about to be called with one name
UnsetCalled == AtCommand("picolCommandUnSet") /\ Len(Top.argv) = 2

\* a live variable is a link to the cell v
LinkedTo(ii, v) ==
  \E c \in 1..Len(ii.cells) : ii.cells[c].live /\ ii.cells[c].type = "PV_LINK" /\ ii.cells[c].link = v

\* the effect of unset name on the variables, required where only holds
UnsetEffect(only) ==
  LET v == FindVar(i, Top.argv[2])
  IN IF v = 0
     THEN rv' = PICKLE_ERROR /\ i'.frames = i.frames /\ i'.cells = i.cells
     ELSE only
          => /\ rv' = PICKLE_OK
             /\ FindVar(i', Top.argv[2]) = 0
             /\ LiveFrames(i') = LiveFrames(i)
             /\ \A f \in LiveFrames(i) : \A c \in FrameVars(i, f) \ {v} :
                  /\ c \in FrameVars(i', f)
                  /\ i'.cells[c].name = i.cells[c].name
                  /\ Reads(i', c) = Reads(i, c)
             /\ i.cells[v].type = "PV_LINK"
                  => i'.cells[i.cells[v].link] = i.cells[i.cells[v].link]

\* the claim holds whenever no link leads to the variable that is unset
UnsetKeepsUnlinked ==
  [][UnsetCalled => UnsetEffect(~LinkedTo(i, FindVar(i, Top.argv[2])))]_vars

\* C26: unset name removes name from the current frame and nothing else: every other
\* variable of every frame reads as before, the target of a link that is unset keeps
\* its value, and when name is absent the command returns PICKLE_ERROR and changes
\* no variable
C26_UnsetRemovesOnlyName == [][UnsetCalled => UnsetEffect(TRUE)]_vars

\* the number of frames above f, and whether g is f or a frame above it
RECURSIVE FrameDepth(_, _)
FrameDepth(ii, f) == IF ii.frames[f].parent = 0 THEN 0 ELSE 1 + FrameDepth(ii, ii.frames[f].parent)

RECURSIVE OnChain(_, _, _)
OnChain(ii, g, f) == g = f \/ (ii.frames[f].parent # 0 /\ OnChain(ii, g, ii.frames[f].parent))

\* the number of parents a level argument asks to climb: the number itself, or the
\* level counter less the number behind a #
Climbs(ii, levelStr) ==
  IF levelStr # << >> /\ levelStr[1] = "#" THEN ii.level - Denoted(Tail(levelStr))
  ELSE Denoted(levelStr)

ValidLevel(ii, levelStr) ==
  /\ StrictDecimal(IF levelStr # << >> /\ levelStr[1] = "#" THEN Tail(levelStr) ELSE levelStr)
  /\ Climbs(ii, levelStr) >= 0

\* the frame that many parents above the current frame, the top-level frame at most
Selected(ii, levelStr) ==
  CHOOSE g \in LiveFrames(ii) :
    /\ OnChain(ii, g, ii.callframe)
    /\ FrameDepth(ii, g) = IF FrameDepth(ii, ii.callframe) > Climbs(ii, levelStr)
                           THEN FrameDepth(ii, ii.callframe) - Climbs(ii, levelStr) ELSE 0

UpLevelCalled == AtCommand("picolCommandUpLevel") /\ Len(Top.argv) >= 2

\* C27: uplevel level script evaluates the script in the frame level selects and with
\* the level counter as it is; when the script returns, with whatever code, the
\* current frame is the one uplevel was called in and the code is handed on; an
\* invalid level returns PICKLE_ERROR with the current frame and the level unchanged
C27_UpLevelRestoresFrame ==
  /\ [][UpLevelCalled
          => IF ValidLevel(i, Top.argv[2])
             THEN /\ ~returning'
                  /\ Len(stack') = Len(stack) + 2
                  /\ i'.callframe = Selected(i, Top.argv[2])
                  /\ i'.level = i.level
                  /\ stack'[Len(stack) + 1].cf = i.callframe
                  /\ stack'[Len(stack) + 1].lvl = i.level
             ELSE /\ returning' /\ rv' = PICKLE_ERROR
                  /\ i'.callframe = i.callframe
                  /\ i'.level = i.level]_vars
  /\ [][Returned("uplevel", "script")
          => /\ returning' /\ rv' = rv
             /\ i'.callframe = Top.cf
             /\ i'.level = Top.lvl
             /\ i.level = Top.lvl
             /\ Len(stack') = Len(stack) - 1]_vars

\* a script run by uplevel in the top-level frame, two frames up, has returned and the
\* frame of the caller is about to be restored
C27_Witness ==
  /\ Returned("uplevel", "script")
  /\ rv = PICKLE_OK
  /\ i.callframe = 1
  /\ FrameDepth(i, Top.cf) = 2

\* an allocation of picolEval has failed in this step
Failed == i'.failed # i.failed

\* after a failed allocation picolEval returns PICKLE_ERROR with the sentinel as the
\* result, and the argv of the evaluation is freed
OomReturnsError ==
  [][Failed => /\ returning' /\ rv' = PICKLE_ERROR
               /\ i'.static_result /\ i'.result = "string_oom"
               /\ ResultString(i') = string_oom
               /\ stack' = Pop
               /\ i'.argvLive = ArgvHeld(stack')]_vars

\* C28: when an allocation fails inside picolEval, the evaluation returns PICKLE_ERROR
\* with the result set to the out-of-memory sentinel, and every argv word allocated so
\* far and the token in progress have been freed
C28_OomFreesAll ==
  [][Failed => /\ returning' /\ rv' = PICKLE_ERROR
               /\ i'.static_result /\ i'.result = "string_oom"
               /\ i'.argvLive = ArgvHeld(stack')
               /\ i'.tokLost = i.tokLost]_vars

\* concatenate has returned a string
ConcatCalled == VarCalled("concatenate") /\ rv = PICKLE_OK

\* concat has been called with the words LastOp.name[2], LastOp.name[3], ...
ConcatCommandCalled == VarCalled("picolCommandConcat")

\* when the joined string with its NUL fits the buffer concatenate returns the words
\* joined, and concat returns its words joined with one space
ConcatInBounds ==
  /\ (ConcatCalled /\ ~ConcatOverflows(LastOp.name[1], LastOp.name[2]))
       => LastOp.out.f = Joined(LastOp.name[1], LastOp.name[2])
  /\ ConcatCommandCalled
       => rv = PICKLE_OK /\ LastOp.out.result = Joined(<<" ">>, Tail(LastOp.name))

\* the five cases of picolTestConcat pass
TestConcatPasses == picolTestConcat = 0

\* C29: concatenate returns the words joined with the join string between consecutive
\* words only: the empty string for no words and the word itself for one word whatever
\* the join string, and concat of one word gives that word
C29_Concatenate ==
  /\ ConcatCalled
       => /\ LastOp.out.f = Joined(LastOp.name[1], LastOp.name[2])
          /\ Len(LastOp.name[2]) = 0 => LastOp.out.f = << >>
          /\ Len(LastOp.name[2]) = 1 => LastOp.out.f = LastOp.name[2][1]
  /\ (ConcatCommandCalled /\ Len(LastOp.name) = 2)
       => rv = PICKLE_OK /\ LastOp.out.result = LastOp.name[2]

\* the tokens of the text of q from its beginning up to the token q is at, in source
\* order: the type and the bytes of each
RECURSIVE TokensTo(_, _)
TokensTo(q, at) ==
  LET g == picolGetToken(q)
      tok == [type |-> g.p.type, s |-> TokenText(g.p)]
  IN IF g.rc # PICKLE_OK \/ g.p.type = "PT_EOF" THEN << >>
     ELSE IF <<g.p.p, g.p.type>> = <<at.p, at.type>> THEN <<tok>>
     ELSE <<tok>> \o TokensTo(g.p, at)

History == TokensTo(picolParserInitialize(Top.p.text, Top.p.base), Top.p)

\* the tokens of the command the token loop is in that lie before the current token
Command ==
  LET h == History
      eols == {k \in 1..(Len(h) - 1) : h[k].type = "PT_EOL"}
      last == IF eols = {} THEN 0 ELSE CHOOSE k \in eols : \A j \in eols : j <= k
  IN SubSeq(h, last + 1, Len(h) - 1)

\* the current token has a separator token, or nothing, in front of it
StartsRun == Len(History) = 1 \/ History[Len(History) - 1].type \in {"PT_SEP", "PT_EOL"}

\* the runs of tokens between the separators of a command
RECURSIVE TokenRuns(_)
TokenRuns(toks) ==
  IF toks = << >> THEN << >>
  ELSE IF toks[1].type = "PT_SEP" THEN TokenRuns(Tail(toks))
  ELSE LET n == CHOOSE n \in 1..Len(toks) :
                  /\ \A k \in 1..n : toks[k].type # "PT_SEP"
                  /\ n = Len(toks) \/ toks[n + 1].type = "PT_SEP"
       IN <<SubSeq(toks, 1, n)>> \o TokenRuns(SubSeq(toks, n + 1, Len(toks)))

\* a run of tokens whose values do not depend on the state, and their values in order
Literal(run) == \A k \in 1..Len(run) : run[k].type \in {"PT_STR", "PT_ESC"}

RECURSIVE LiteralValue(_)
LiteralValue(run) ==
  IF run = << >> THEN << >>
  ELSE (IF run[1].type = "PT_STR" THEN run[1].s ELSE CStr(Decoded(run[1].s).s))
         \o LiteralValue(Tail(run))

\* picolEval is at a token in the middle of a text
AtToken == Running /\ Top.p.type # "PT_EOF"

\* picolEval holds the substituted value of the current token
ValueReady ==
  \/ Running /\ Top.p.type = "PT_STR"
  \/ Running /\ Top.p.type = "PT_ESC" /\ Decoded(TokStr).ok
  \/ Running /\ Top.p.type = "PT_VAR" /\ FindVar(i, TokStr) # 0
  \/ Returned("eval", "cmd") /\ rv = PICKLE_OK

Substituted ==
  IF returning THEN ResultString(i)
  ELSE IF Top.p.type = "PT_STR" THEN TokStr
  ELSE IF Top.p.type = "PT_ESC" THEN CStr(Decoded(TokStr).s)
  ELSE Reads(i, FindVar(i, TokStr)).val

\* argv holds one word for each run of tokens of the command so far, and the words made
\* of braced and bare tokens only are the decoded texts of their tokens in order
WordsAreRuns ==
  AtToken
    => /\ Len(Top.argv) = Len(TokenRuns(Command))
       /\ \A k \in 1..Len(Top.argv) :
            Literal(TokenRuns(Command)[k]) => Top.argv[k] = LiteralValue(TokenRuns(Command)[k])

\* the token loop appends to the last word only when there is one
AppendsToWord ==
  (AtToken /\ Top.prevtype \notin {"PT_SEP", "PT_EOL"}) => Len(Top.argv) >= 1

\* the value of a token that starts a run becomes a new word, and the value of any
\* other token is put behind the last word
ValueJoinsWord ==
  ValueReady
    => /\ Len(stack') = Len(stack)
       /\ stack'[Len(stack)].argv =
            IF StartsRun THEN Top.argv \o <<Substituted>>
            ELSE SubSeq(Top.argv, 1, Len(Top.argv) - 1) \o <<Top.argv[Len(Top.argv)] \o Substituted>>

\* C30: every word passed to a command is the values of the tokens between two
\* separator tokens, in source order, argc is the number of such runs of tokens, and a
\* token is appended to the previous word only when argc is at least 1
C30_WordsFromTokenRuns == [](WordsAreRuns /\ AppendsToWord) /\ [][ValueJoinsWord]_vars

\* concat is about to be called with a second word made of a bare token, the value of a
\* variable and the result of a command
C30_Witness ==
  /\ AtToken
  /\ Top.p.type = "PT_EOL"
  /\ Len(TokenRuns(Command)) = 2
  /\ Len(TokenRuns(Command)[2]) = 3
  /\ Top.argv = <<<<"c", "o", "n", "c", "a", "t">>, <<"a", "1", "b">>>>

\* a parser has been initialized and picolGetToken called on it some number of times
Lexing == log # << >> /\ log[1].op \in {"picolParserInitialize", "picolGetToken"}

\* picolGetToken is called in this step
TokenCall == Lexing /\ log' # log

\* the lexer has returned PT_EOF or an error
LexEnded == Lexing /\ (rv # PICKLE_OK \/ log[1].out.type = "PT_EOF")

\* a call before the end of the text takes at least one byte, and a call at the end
\* gives PT_EOL behind a token that is neither PT_EOL nor PT_EOF and PT_EOF otherwise
TokenProgress ==
  TokenCall
    => IF log[1].out.len > 0
       THEN /\ log'[1].out.p > log[1].out.p
            /\ log'[1].out.len < log[1].out.len
       ELSE /\ rv' = PICKLE_OK
            /\ log'[1].out.p = log[1].out.p
            /\ log'[1].out.type = IF log[1].out.type \in {"PT_EOL", "PT_EOF"}
                                  THEN "PT_EOF" ELSE "PT_EOL"

\* the calls that have not ended the lexing are no more than the bytes taken and one,
\* so that the lexing of a text ends within two calls more than it has bytes
LexBounded ==
  Lexing
    => /\ LexEnded \/ nops - 1 <= log[1].out.p
       /\ nops - 1 >= Len(log[1].name) + 2 => LexEnded

\* C31: repeated calls of picolGetToken end: a call before the end of the text takes at
\* least one byte, at the end of the text the lexer gives PT_EOL once if the token
\* before was neither PT_EOL nor PT_EOF, and PT_EOF on every call behind that
C31_LexerTerminates == [][TokenProgress]_vars /\ []LexBounded

\* the text a has given PT_ESC, PT_EOL and PT_EOF, and PT_EOF again
C31_Witness ==
  /\ Lexing
  /\ log[1].name = <<"a">>
  /\ log[1].out.type = "PT_EOF"
  /\ nops = 5


\* byte k of a command that starts at byte s stands behind an odd run of backslashes
Uncounted(t, s, k) ==
  Cardinality({j \in s..(k - 1) : \A m \in j..(k - 1) : t[m] = "\\"}) % 2 = 1

RECURSIVE InBraces(_, _, _)
\* the braces open in front of byte k; a closing brace with none open closes nothing
InBraces(t, s, k) ==
  IF k <= s THEN 0
  ELSE IF Uncounted(t, s, k - 1) THEN InBraces(t, s, k - 1)
  ELSE IF t[k - 1] = "{" THEN InBraces(t, s, k - 1) + 1
  ELSE IF t[k - 1] = "}" /\ InBraces(t, s, k - 1) > 0 THEN InBraces(t, s, k - 1) - 1
  ELSE InBraces(t, s, k - 1)

\* byte k is the bracket c, outside braces and not behind a backslash
IsBracket(t, s, k, c) == t[k] = c /\ ~Uncounted(t, s, k) /\ InBraces(t, s, k) = 0

\* the bracket depth in front of byte k, the opening bracket counted
BracketDepth(t, s, k) ==
  1 + Cardinality({j \in s..(k - 1) : IsBracket(t, s, j, "[")})
    - Cardinality({j \in s..(k - 1) : IsBracket(t, s, j, "]")})

\* byte k is a closing bracket that brings the depth back to 0
ClosesCommand(t, s, k) == IsBracket(t, s, k, "]") /\ BracketDepth(t, s, k) = 1

HasClose(t, s) == \E k \in s..Len(t) : ClosesCommand(t, s, k)
CloseAt(t, s) == CHOOSE k \in s..Len(t) :
                   ClosesCommand(t, s, k) /\ \A j \in s..(k - 1) : ~ClosesCommand(t, s, j)

\* picolGetToken is called at an opening bracket
BracketCall == TokenCall /\ Cur(log[1].out) = "["

\* the token of a command that has its closing bracket, and the place the lexer is
\* at behind it
BracketToken ==
  (BracketCall /\ HasClose(log[1].name, log[1].out.p + 1))
    => /\ rv' = PICKLE_OK
       /\ log'[1].out.type = "PT_CMD"
       /\ log'[1].out.start = log[1].out.p + 1
       /\ log'[1].out.end = CloseAt(log[1].name, log[1].out.p + 1) - 1
       /\ log'[1].out.p = CloseAt(log[1].name, log[1].out.p + 1) + 1
       /\ TokenText(log'[1].out)
            = SubSeq(log[1].name, log[1].out.p + 1, CloseAt(log[1].name, log[1].out.p + 1) - 1)

\* a command without its closing bracket is an error or runs to the end of the text
BracketOpen ==
  (BracketCall /\ ~HasClose(log[1].name, log[1].out.p + 1))
    => rv' # PICKLE_OK \/ (log'[1].out.type = "PT_CMD" /\ log'[1].out.end = Len(log[1].name))

\* C32: a command-substitution token starts behind its opening bracket and ends just
\* before the closing bracket that brings the bracket depth back to 0, where brackets
\* are counted only outside braces and not behind a backslash; the closing bracket is
\* consumed and is not part of the token
C32_CommandToken == [][BracketToken /\ BracketOpen]_vars

\* the token of [set x {]}] is set x {]}
C32_Witness ==
  /\ Lexing /\ nops = 2
  /\ log[1].name = <<"[", "s", "e", "t", " ", "x", " ", "{", "]", "}", "]">>
  /\ log[1].out.type = "PT_CMD"
  /\ TokenText(log[1].out) = <<"s", "e", "t", " ", "x", " ", "{", "]", "}">>
  /\ log[1].out.len = 0


\* the record of the innermost procedure call or uplevel that is active, 0 if none
Innermost ==
  IF \E k \in 1..Len(stack) : stack[k].kind \in {"callproc", "uplevel"}
  THEN CHOOSE k \in 1..Len(stack) :
         /\ stack[k].kind \in {"callproc", "uplevel"}
         /\ \A m \in (k + 1)..Len(stack) : stack[m].kind \notin {"callproc", "uplevel"}
  ELSE 0

\* the body of a procedure is being evaluated, and no script given to uplevel inside it
InBody == Innermost # 0 /\ stack[Innermost].kind = "callproc"

\* the frame of the innermost call: the frame that was pushed last and is not popped
CallFrame == CHOOSE f \in LiveFrames(i) : \A g \in LiveFrames(i) : g <= f

\* the variable of the frame of the call that has the name, 0 if it has none
Local(name) == FindVar([i EXCEPT !.callframe = CallFrame], name)

\* a variable of another live frame has the name
Elsewhere(name) ==
  \E f \in LiveFrames(i) \ {CallFrame} : \E c \in FrameVars(i, f) : i.cells[c].name = name

\* the body reads the variable name as a $name token or with set name
ReadsToken == Running /\ Top.p.type = "PT_VAR"
ReadsBySet == AtCommand("picolCommandSet") /\ Len(Top.argv) = 2
SetsInBody == InBody /\ AtCommand("picolCommandSet") /\ Len(Top.argv) = 3

\* names are looked up in the frame of the call while its body is evaluated
BodyResolvesLocally == InBody => i.callframe = CallFrame

\* reading a name the frame of the call does not have is an error, and reading one it
\* has as a value gives that value, whatever the other frames hold
BodyReads ==
  /\ (InBody /\ ReadsToken /\ Local(TokStr) = 0) => (returning' /\ rv' = PICKLE_ERROR)
  /\ (InBody /\ ReadsBySet /\ Local(Top.argv[2]) = 0) => (returning' /\ rv' = PICKLE_ERROR)
  /\ (InBody /\ ReadsBySet /\ Local(Top.argv[2]) # 0
        /\ i.cells[Local(Top.argv[2])].type # "PV_LINK")
       => (rv' = PICKLE_OK /\ ResultString(i') = i.cells[Local(Top.argv[2])].val)

\* set name val in a body changes the variable of the frame of the call, making it when
\* the frame has none, or the variable at the end of its links, and no other
BodySets ==
  SetsInBody
    => /\ rv' = PICKLE_OK
       /\ \A f \in LiveFrames(i) \ {CallFrame} : i'.frames[f] = i.frames[f]
       /\ \A c \in 1..Len(i.cells) :
            (i'.cells[c] # i.cells[c])
              => /\ Local(Top.argv[2]) # 0
                 /\ c = LinkEnd(i, Local(Top.argv[2]), Len(i.cells))
                 /\ (c \notin FrameVars(i, CallFrame)) => i.cells[Local(Top.argv[2])].type = "PV_LINK"
       /\ Local(Top.argv[2]) = 0
            => /\ Len(i'.cells) = Len(i.cells) + 1
               /\ FrameVars(i', CallFrame) = FrameVars(i, CallFrame) \cup {Len(i'.cells)}
       /\ VarValue(i', Top.argv[2]) = Top.argv[3]

\* when the call returns its frame and the variables of the frame are gone: no live
\* frame lists them and no live link leads to them
BodyVarsDropped ==
  Returned("callproc", "body")
    => /\ CallFrame \notin LiveFrames(i')
       /\ \A c \in FrameVars(i, CallFrame) :
            /\ ~i'.cells[c].live
            /\ \A f \in LiveFrames(i') : c \notin FrameVars(i', f)
            /\ ~LinkedTo(i', c)

InLiveFrame(ii, c) == ii.cells[c].live /\ \E f \in LiveFrames(ii) : c \in FrameVars(ii, f)

\* the links of the live frames whose target has been removed
DanglingLinks(ii) ==
  {c \in 1..Len(ii.cells) : /\ InLiveFrame(ii, c)
                            /\ ii.cells[c].type = "PV_LINK"
                            /\ ~InLiveFrame(ii, ii.cells[c].link)}

\* C34: in every reachable state the target of every link variable of a live frame is
\* a variable that is still in a live frame: no upvar, unset, uplevel or return of a
\* procedure leaves a link to a variable that has been removed
C34_LinkTargetsExist == DanglingLinks(i) = {}

\* only unset makes a link dangle: no other step adds one
OnlyUnsetDangles ==
  [][DanglingLinks(i') \subseteq DanglingLinks(i) \/ UnsetCalled]_vars


\* the evaluations of procedure bodies that are active: the records of picolEval that
\* picolCommandCallProc has entered
BodyEvals == {k \in 2..Len(stack) : stack[k].kind = "eval" /\ stack[k - 1].kind = "callproc"}

\* C35: the parameter list and the body of a procedure are not freed while a call of
\* the procedure evaluates the body, also when the body renames or removes the
\* procedure
C35_BodyHeldDuringCall == \A k \in BodyEvals : TextNumber(i, stack[k].p) \notin i.freed

\* the lexer goes on in a body that was freed, and may read what was written there
ReadsFreedBody ==
  /\ EvalAt("tok")
  /\ Len(stack) \in BodyEvals
  /\ TextNumber(i, Top.p) \in i.freed
  /\ Top.p.len # 0


\* the procedure calls that are active
ActiveCalls(st) == {k \in 1..Len(st) : st[k].kind = "callproc"}

\* the variables of the frames that were popped
DroppedVars(ii) ==
  UNION {FrameVars(ii, f) : f \in (1..Len(ii.frames)) \ LiveFrames(ii)}

\* the frames and the copies of parameter lists that are allocated are those of the
\* calls that are active: a copy is freed before the body is evaluated, a frame and
\* its variables when the call returns
TemporariesFreed(ii, st) ==
  /\ ii.alists = 0
  /\ Cardinality(LiveFrames(ii)) = 1 + Cardinality(ActiveCalls(st))
  /\ \A c \in DroppedVars(ii) : ~ii.cells[c].live

\* C36: the copy of the parameter list and the call frame with its variables that a
\* procedure call allocates are freed when the call returns, on every exit path:
\* normal return, error in the body, too many and too few arguments
C36_CallTemporariesFreed == TemporariesFreed(i, stack)

\* a procedure is about to be called with fewer arguments than it has parameters
TooFewArguments ==
  /\ AtCommand("picolCommandCallProc")
  /\ Len(SplitArgs(i.table[picolGetCommand(i, Top.argv[1])].privdata[1], << >>)) > Len(Top.argv) - 1

\* a call that is not given too few arguments leaves no temporary behind
OtherExitsFree ==
  [][(TemporariesFreed(i, stack) /\ ~TooFewArguments) => TemporariesFreed(i', stack')]_vars

\* a call with too few arguments leaves its copy of the parameter list allocated
TooFewLeaksCopy ==
  [][TooFewArguments => (returning' /\ rv' = PICKLE_ERROR /\ i'.alists = i.alists + 1)]_vars


\* picolCommandWhile returns to its caller in this step
WhileReturns == stack # << >> /\ Top.kind = "while" /\ returning /\ stack' = Pop /\ returning'

\* C37: a while command never returns BREAK or CONTINUE to its caller, whether the
\* condition or the body produced the code
C37_WhileKeepsLoopCodes ==
  [][WhileReturns => rv' \notin {PICKLE_BREAK, PICKLE_CONTINUE}]_vars

\* the loop codes of the body do not leave the while command
WhileKeepsBodyCodes ==
  [][(WhileReturns /\ Top.pc = "body") => rv' \notin {PICKLE_BREAK, PICKLE_CONTINUE}]_vars

\* every code of the condition other than OK is returned as it is
WhileHandsOnCondCodes ==
  [][(Returned("while", "cond") /\ rv # PICKLE_OK) => (WhileReturns /\ rv' = rv)]_vars

\* a condition has ended with BREAK or CONTINUE
CondLoopCode == Returned("while", "cond") /\ rv \in {PICKLE_BREAK, PICKLE_CONTINUE}


\* a raised to the power b, for b >= 0
RECURSIVE Power(_, _)
Power(a, b) == IF b = 0 THEN 1 ELSE a * Power(a, b - 1)

\* pow was called with the integers a and b
PowCalled(a, b) ==
  /\ VarCalled("picolCommandMath")
  /\ Denoted(LastOp.name[2]) = a
  /\ Denoted(LastOp.name[3]) = b

\* what the claim says of pow a b
PowResult(a, b) ==
  PowCalled(a, b)
    => IF b < 0 THEN rv = PICKLE_ERROR
       ELSE rv = PICKLE_OK /\ LastOp.out.result = picolLongToString(Power(a, b), 10)

\* C38: pow a b returns OK with a raised to the power b for every integer a and every
\* b >= 0 whose result fits the integer width, and ERROR for every b < 0
C38_PowRaises ==
  \A a \in (0 - MaxPowBase)..MaxPowBase : \A b \in (0 - 2)..MaxPowExp : PowResult(a, b)

\* the claim holds for every base that is not negative
PowOfNonNegative ==
  \A a \in 0..MaxPowBase : \A b \in (0 - 2)..MaxPowExp : PowResult(a, b)

\* for a negative base pow gives the power of the magnitude with a minus sign,
\* whatever the exponent
PowOfNegative ==
  \A a \in (0 - MaxPowBase)..(0 - 1) : \A b \in 0..MaxPowExp :
    PowCalled(a, b)
      => rv = PICKLE_OK /\ LastOp.out.result = picolLongToString(0 - Power(0 - a, b), 10)


RangeCalled == VarCalled("picolCommandString")
RangeFirst == Denoted(LastOp.name[4])
RangeLast == Denoted(LastOp.name[5])

\* the interval [first, last] clamped to the positions 0..Len(str)-1 of the string
ClampedFirst == IF RangeFirst < 0 THEN 0 ELSE RangeFirst
ClampedLast == IF RangeLast > Len(LastOp.name[3]) - 1 THEN Len(LastOp.name[3]) - 1 ELSE RangeLast

\* the bytes of the string at the positions of the clamped interval
RangeBytes ==
  IF ClampedFirst > ClampedLast THEN << >>
  ELSE SubSeq(LastOp.name[3], ClampedFirst + 1, ClampedLast + 1)

\* C39: string range s first last returns OK for all integers first and last, with the
\* bytes of s at the positions of [first, last] clamped to the positions of s, the
\* empty string when the clamped interval is empty, and writes nothing out of bounds
C39_StringRange ==
  RangeCalled => /\ rv = PICKLE_OK
                 /\ LastOp.out.result = RangeBytes
                 /\ ~LastOp.out.overflow

\* first is not above last, and the interval lies more than one position behind
\* the end of the string or more than one position in front of its start
FirstBeyondEnd ==
  RangeFirst <= RangeLast /\ (RangeFirst > Len(LastOp.name[3]) + 1 \/ RangeLast < 0 - 1)

\* at least as many bytes are asked for as h.buf has
FillsBuffer == RangeFirst <= RangeLast /\ (ClampedLast - ClampedFirst) + 1 >= SMALL_RESULT_BUF_SZ - 1

\* outside those two cases the claim holds
RangeWithinString ==
  (RangeCalled /\ ~FirstBeyondEnd /\ ~FillsBuffer)
    => /\ rv = PICKLE_OK
       /\ LastOp.out.result = RangeBytes
       /\ ~LastOp.out.overflow

\* with the interval that far outside the command returns ERROR and sets no result
RangeBeyondEndFails ==
  (RangeCalled /\ FirstBeyondEnd) => (rv = PICKLE_ERROR /\ i.result = "string_empty")


\* the second evaluation of the source has returned to the host
SecondRunDone == stack = << >> /\ returning /\ nevals = 2

\* C40: the line counter after an evaluation, and with it the line prefix of the error
\* message, depends on the source text only: two evaluations of one source that differ
\* in the addresses of the heap texts alone end with the same line counter
C40_LineOfSourceAlone ==
  SecondRunDone => /\ picolLongToString(i.line, 10) = log[2][1]
                   /\ ResultString(i) = log[2][2]

\* without nested text the two evaluations agree
LineOfFlatSource ==
  (SecondRunDone /\ i.ntexts = 0)
    => /\ picolLongToString(i.line, 10) = log[2][1]
       /\ ResultString(i) = log[2][2]

\* two evaluations of a source with a command substitution have ended with
\* different line counters
LinesDiffer ==
  /\ SecondRunDone
  /\ log[1][1] = <<"s", "e", "t", " ", "a", " ", "[", "s", "e", "t", " ", "b", " ", "1", "\n", "]", "\n", "s", "e", "t", " ", "c", " ", "2", "\n", "f", "o", "o">>
  /\ picolLongToString(i.line, 10) # log[2][1]

====
